---------------------------- MODULE Spec2Model ----------------------------
(***************************************************************************)
(* A model of the orchestration core of HD_OS-sessions:                    *)
(*   - the Plan Builder (BacklogBridge.build_next_plan),                   *)
(*   - the directory lock (StateLock in state/bridge.py, _lock in          *)
(*     hooks/shared_state.py),                                             *)
(*   - the coordination entrypoint (_handle_subagent_stop).                *)
(* Three specifications share the module: SpecPlan drives the planner over *)
(* task snapshots, SpecSignal runs completion signals one after another,   *)
(* and Spec runs concurrent entrypoint invocations under the lock.         *)
(***************************************************************************)
EXTENDS Integers, Sequences, FiniteSets, TLC

VARIABLES
    snapshot,     \* planner input: the task snapshot, a sequence of task metadata
    target,       \* planner input: the requested bootstrap stage
    completed,    \* planner input: the completed group ids handed to the planner
    plan,         \* the current plan (NoPlan, or an ExecutionPlan of group records)
    calls,        \* SpecPlan: how the latest build_next_plan call ended
    maxStage,     \* SpecPlan: highest stage of the waves built so far (0: none yet)
    stageDrop,    \* SpecPlan: a fresh wave had a lower stage than an earlier one
    dispatched,   \* SpecPlan: group ids returned in some wave so far
    index,        \* the persisted session index (session_index.json): a sequence of entries
    result,       \* SpecSignal: what the latest entrypoint invocation returned
    clock,        \* SpecSignal: the timestamp source (_timestamp), one tick per invocation
    impl,         \* which lock the processes use: "StateLock" or "_lock"
    lock,         \* the lock directory: whether it exists, its info record, its mtime
    time,         \* the time (time.time / time.monotonic), in ticks
    pc,           \* each process's position
    deadline,     \* each process's acquisition deadline (start + timeout)
    held,         \* StateLock._held of each process
    created,      \* whether the process's own mkdir of the lock directory succeeded
    nested,       \* each process's position in a second acquisition made inside its with-block
    loaded,       \* what each entrypoint invocation loaded and computed under the lock
    disk,         \* the other files of the state directory: the .prev backups and the unified document
    doc,          \* SpecPersist: the document handed to the save function
    file,         \* SpecPersist: the destination file
    tmp,          \* SpecPersist: the temporary file of the write
    wpc,          \* SpecPersist: the writer's position
    got,          \* SpecPersist: what a reader last loaded from the destination
    summary,      \* SpecStatus: what the latest get_group_status call returned
    made,         \* SpecModels: what the latest constructor, loader or builder call produced
    unified       \* SpecLoad: the unified document sessions-state.json as a file

planVars == <<snapshot, target, completed, plan, calls, maxStage, stageDrop, dispatched>>
signalVars == <<index, result, clock>>
lockVars == <<impl, lock, time, pc, deadline, held, created, nested>>
fileVars == <<doc, file, tmp, wpc, got>>
statusVars == <<summary, made, unified>>
dataVars == <<planVars, signalVars, loaded, disk, fileVars, statusVars>>

----------------------------------------------------------------------------
(* Identifiers.  Task ids, group ids and dependency tokens are strings;    *)
(* IdOrder lists them in Python's string order ('T' < 'g' < 'z').          *)

IdOrder == <<"T1", "T2", "T3", "g1", "g1 ", "g2", "g3", "zz">>

IdRankOf == [s \in {IdOrder[i] : i \in 1..Len(IdOrder)} |->
                CHOOSE i \in 1..Len(IdOrder) : IdOrder[i] = s]
IdRank(s) == IdRankOf[s]

\* str.strip() on the identifiers of the model: "g1 " is "g1" with padding.
Strip(s) == IF s = "g1 " THEN "g1" ELSE s

\* Optional[ExecutionPlan]: None, or a plan with its groups in order.
NoPlan == [exists |-> FALSE, groups |-> <<>>]
ExecutionPlan(groups) == [exists |-> TRUE, groups |-> groups]

\* Bounds of the snapshot family: parallel_group ranges over 1..MaxStage,
\* bootstrap_stage over BootstrapStages.
MaxStage == 2
BootstrapStages == {1, 2}

Range(s) == {s[i] : i \in 1..Len(s)}

RECURSIVE SetToSeq(_)
SetToSeq(S) ==
    IF S = {} THEN <<>>
    ELSE LET x == CHOOSE y \in S : \A z \in S : IdRank(y) <= IdRank(z)
         IN <<x>> \o SetToSeq(S \ {x})

Reverse(s) == [i \in 1..Len(s) |-> s[Len(s) + 1 - i]]

\* The iteration orders of a Python set of strings: the order depends on the
\* process's string hashing, so every listing of the set is possible.  For
\* the token sets of the model (at most two tokens) these two are all of them.
IterOrders == {"asc", "desc"}
IterSet(S, order) == IF order = "asc" THEN SetToSeq(S) ELSE Reverse(SetToSeq(S))

----------------------------------------------------------------------------
(* BacklogBridge.build_next_plan                                           *)

\* extract_orchestration_metadata(task, strict=False): None for a task whose
\* orchestration block is missing or malformed.
HasMetadata(task) == task.orchestration = "ok"

RECURSIVE OrchEntries(_)
OrchEntries(snap) ==
    IF snap = <<>> THEN <<>>
    ELSE IF HasMetadata(Head(snap))
         THEN <<Head(snap)>> \o OrchEntries(Tail(snap))
         ELSE OrchEntries(Tail(snap))

GroupIndex(groups, gid) ==
    IF \E i \in 1..Len(groups) : groups[i].group_id = gid
    THEN CHOOSE i \in 1..Len(groups) : groups[i].group_id = gid
    ELSE 0

NewGroupSpec(meta) ==
    [group_id |-> meta.stage_group_id,
     bootstrap_stage |-> meta.bootstrap_stage,
     phase |-> meta.phase,
     parallel_group |-> meta.parallel_group,
     agent_type |-> meta.agent_type,
     sandbox |-> meta.sandbox,
     tasks |-> <<>>,
     depends_on |-> {}]

\* groups.setdefault(...) per entry: first-seen values, tasks appended, tokens unioned.
RECURSIVE BucketTasks(_, _)
BucketTasks(entries, groups) ==
    IF entries = <<>> THEN groups
    ELSE LET meta == Head(entries)
             idx == GroupIndex(groups, meta.stage_group_id)
             groups1 == IF idx = 0 THEN Append(groups, NewGroupSpec(meta)) ELSE groups
             j == IF idx = 0 THEN Len(groups1) ELSE idx
             groups2 == [groups1 EXCEPT ![j].tasks = Append(@, meta),
                                        ![j].depends_on = @ \cup Range(meta.depends_on)]
         IN BucketTasks(Tail(entries), groups2)

\* metadata_by_task_id[dep].stage_group_id (a dict: the last entry of an id wins)
HasTask(entries, id) == \E i \in 1..Len(entries) : entries[i].id = id
GroupOfTask(entries, id) ==
    LET i == CHOOSE k \in 1..Len(entries) :
                 entries[k].id = id /\ \A m \in (k+1)..Len(entries) : entries[m].id # id
    IN entries[i].stage_group_id

\* Mutant: only the first token of the iteration is resolved.
ResolveFirstOnly(tokens, entries, groups) ==
    IF tokens = <<>> THEN [resolved |-> <<>>, unknown |-> <<>>]
    ELSE LET dep == Strip(Head(tokens))
         IN IF HasTask(entries, dep)
            THEN [resolved |-> <<GroupOfTask(entries, dep)>>, unknown |-> <<>>]
            ELSE IF GroupIndex(groups, dep) # 0
                 THEN [resolved |-> <<dep>>, unknown |-> <<>>]
            ELSE [resolved |-> <<>>, unknown |-> <<dep>>]

RECURSIVE ResolveFrom(_, _, _)
ResolveFrom(tokens, entries, groups) ==
    IF tokens = <<>> THEN [resolved |-> <<>>, unknown |-> <<>>]
    ELSE LET dep == Strip(Head(tokens))
             rest == ResolveFrom(Tail(tokens), entries, groups)
         IN IF dep = "" THEN rest
            ELSE IF HasTask(entries, dep)
                 THEN [rest EXCEPT !.resolved = <<GroupOfTask(entries, dep)>> \o @]
            ELSE IF GroupIndex(groups, dep) # 0
                 THEN [rest EXCEPT !.resolved = <<dep>> \o @]
            ELSE [rest EXCEPT !.unknown = <<dep>> \o @]

\* _resolve_dependency_groups(dependency_tokens, metadata_by_task, groups); the
\* tokens are a set, listed here in the iteration order `order`.
ResolveDependencyGroups(tokenSet, entries, groups, order) ==
    ResolveFrom(IterSet(tokenSet, order), entries, groups)

AllDone(spec) == \A i \in 1..Len(spec.tasks) : spec.tasks[i].task_status = "done"
HasProgress(spec) == \E i \in 1..Len(spec.tasks) : spec.tasks[i].task_status # "pending"

\* Mutant: the outstanding-dependency test is dropped.
IsReadyNoOutstanding(spec, entries, groups, done, requested_stage, order) ==
    LET r == ResolveDependencyGroups(spec.depends_on, entries, groups, order)
    IN /\ spec.bootstrap_stage = requested_stage
       /\ spec.group_id \notin done
       /\ ~AllDone(spec)
       /\ r.unknown = <<>>

\* Mutant: a group with any dependency token is never admitted.
IsReadyNoDeps(spec, entries, groups, done, requested_stage, order) ==
    /\ spec.bootstrap_stage = requested_stage
    /\ spec.group_id \notin done
    /\ ~AllDone(spec)
    /\ spec.depends_on = {}

\* Mutant: a group with an unknown dependency token is admitted.
IsReadyUnknownOk(spec, entries, groups, done, requested_stage, order) ==
    LET r == ResolveDependencyGroups(spec.depends_on, entries, groups, order)
    IN /\ spec.bootstrap_stage = requested_stage
       /\ spec.group_id \notin done
       /\ ~AllDone(spec)
       /\ \A i \in 1..Len(r.resolved) : r.resolved[i] \in done

\* The admission test of the loop over groups.items().
IsReady(spec, entries, groups, done, requested_stage, order) ==
    LET r == ResolveDependencyGroups(spec.depends_on, entries, groups, order)
    IN /\ spec.bootstrap_stage = requested_stage
       /\ spec.group_id \notin done
       /\ ~AllDone(spec)
       /\ r.unknown = <<>>
       /\ \A i \in 1..Len(r.resolved) : r.resolved[i] \in done

ReadyGroups(entries, groups, done, requested_stage, order) ==
    SelectSeq(groups, LAMBDA spec : IsReady(spec, entries, groups, done, requested_stage, order))

\* Mutant: the highest stage is taken instead of the lowest.
MaxParallel(ready) ==
    CHOOSE m \in {ready[i].parallel_group : i \in 1..Len(ready)} :
        \A i \in 1..Len(ready) : m >= ready[i].parallel_group

MinParallel(ready) ==
    CHOOSE m \in {ready[i].parallel_group : i \in 1..Len(ready)} :
        \A i \in 1..Len(ready) : m <= ready[i].parallel_group

\* Mutant: every ready group is kept, whatever its stage.
KeepAllReady(ready) == ready

\* min_parallel = min(...); keep the groups at that parallel_group.
KeepMinStage(ready) ==
    SelectSeq(ready, LAMBDA spec : spec.parallel_group = MinParallel(ready))

GroupKeyLess(a, b) ==
    \/ a.parallel_group < b.parallel_group
    \/ a.parallel_group = b.parallel_group /\ IdRank(a.group_id) < IdRank(b.group_id)

TaskIdLess(a, b) == IdRank(a.id) < IdRank(b.id)

RECURSIVE SumDurations(_)
SumDurations(tasks) ==
    IF tasks = <<>> THEN 0
    ELSE Head(tasks).estimated_duration_seconds + SumDurations(Tail(tasks))

\* The ExecutionGroup built for one ready group.  estimated_duration 0 stands
\* for None (the code's `sum(...) or None`); a task without a context_ref has "".
EmitGroup(spec) ==
    LET group_tasks == SortSeq(spec.tasks, TaskIdLess)
    IN [group_id |-> spec.group_id,
        task_ids |-> [i \in 1..Len(group_tasks) |-> group_tasks[i].id],
        parallel |-> Len(group_tasks) > 1,
        agent_type |-> spec.agent_type,
        sandbox |-> spec.sandbox,
        bootstrap_stage |-> spec.bootstrap_stage,
        phase |-> spec.phase,
        stage |-> spec.parallel_group,
        depends_on |-> <<>>,
        estimated_duration |-> SumDurations(group_tasks),
        context_refs |-> {<<group_tasks[i].id, group_tasks[i].context_ref>> :
                             i \in {k \in 1..Len(group_tasks) : group_tasks[k].context_ref # ""}},
        status |-> IF HasProgress(spec) THEN "running" ELSE "pending",
        started_at |-> 0,
        completed_at |-> 0]

\* Mutant: the plan is reused only while none of its groups is completed.
InFlightAllPending(current_plan, done, requested_stage) ==
    /\ current_plan.exists
    /\ Len(current_plan.groups) > 0
    /\ \A i \in 1..Len(current_plan.groups) :
           /\ current_plan.groups[i].bootstrap_stage = requested_stage
           /\ current_plan.groups[i].group_id \notin done

\* The reuse test: the current plan holds a group of the requested stage
\* that is not completed.
InFlight(current_plan, done, requested_stage) ==
    /\ current_plan.exists
    /\ \E i \in 1..Len(current_plan.groups) :
           /\ current_plan.groups[i].bootstrap_stage = requested_stage
           /\ current_plan.groups[i].group_id \notin done

\* The plan built from the snapshot when the current plan is not reused.
FreshPlan(done, requested_stage, snap, order) ==
    LET entries == OrchEntries(snap)
        groups == BucketTasks(entries, <<>>)
        ready == ReadyGroups(entries, groups, done, requested_stage, order)
        kept == SortSeq(KeepMinStage(ready), GroupKeyLess)
    IN IF entries = <<>> \/ ready = <<>> THEN NoPlan
       ELSE ExecutionPlan([i \in 1..Len(kept) |-> EmitGroup(kept[i])])

BuildNextPlan(current_plan, completed_groups, bootstrap_stage, snap, order) ==
    LET done == {Strip(gid) : gid \in completed_groups}
    IN IF InFlight(current_plan, done, bootstrap_stage)
       THEN current_plan
       ELSE FreshPlan(done, bootstrap_stage, snap, order)

----------------------------------------------------------------------------
(* SpecPlan: the planner driven over a family of task snapshots.  A         *)
(* snapshot lists its tasks sorted by id, as load_orchestrated_tasks        *)
(* returns them.  Groups of the current plan complete one at a time, and    *)
(* the planner is called again with the grown completed set.                *)

Task(id, gid, bstage, par, deps, status, dur, ref) ==
    [id |-> id, stage_group_id |-> gid, bootstrap_stage |-> bstage, phase |-> 1,
     parallel_group |-> par, agent_type |-> "default", sandbox |-> "read-only",
     depends_on |-> deps, context_ref |-> ref, estimated_duration_seconds |-> dur,
     task_status |-> status, orchestration |-> "ok"]

T1Choices ==
    {Task("T1", "g1", 1, par, deps, "pending", 60, "ctx") :
        par \in 1..MaxStage, deps \in {<<>>, <<"g2">>, <<"zz">>}}

T2Choices ==
    {Task("T2", gid, 1, par, deps, st, 0, "") :
        gid \in {"g1", "g2"}, par \in 1..MaxStage,
        deps \in {<<>>, <<"g1">>, <<"T1">>, <<"T3">>}, st \in {"pending", "done"}}

T3Choices ==
    {Task("T3", gid, bstage, par, deps, "in_progress", 30, "") :
        gid \in {"g2", "g3"}, bstage \in BootstrapStages, par \in 1..MaxStage,
        deps \in {<<>>, <<"T1">>, <<"g2">>}}
    \cup {[Task("T3", "g3", 1, 1, <<>>, "pending", 0, "") EXCEPT !.orchestration = "missing"]}

Snapshots == {<<t1, t2, t3>> : t1 \in T1Choices, t2 \in T2Choices, t3 \in T3Choices}

\* Scenario A of the specification: T1 in g1 (stage 1, no dependencies), T2
\* in g2 (stage 1, depends_on = ["g1"]); the third task of the snapshot has
\* no orchestration block and is skipped.
ScenarioA ==
    <<Task("T1", "g1", 1, 1, <<>>, "pending", 60, "ctx"),
      Task("T2", "g2", 1, 1, <<"g1">>, "pending", 0, ""),
      [Task("T3", "g3", 1, 1, <<>>, "pending", 0, "") EXCEPT !.orchestration = "missing"]>>

\* A plan left from an earlier run (loaded from disk), not built from this snapshot.
StalePlan ==
    ExecutionPlan(<<[group_id |-> "g2", task_ids |-> <<"T2">>, parallel |-> FALSE,
                     agent_type |-> "default", sandbox |-> "read-only", bootstrap_stage |-> 1,
                     phase |-> 1, stage |-> 2, depends_on |-> <<"g1">>, estimated_duration |-> 0,
                     context_refs |-> {}, status |-> "pending", started_at |-> 0,
                     completed_at |-> 0]>>)

NoResult == [status |-> "none", signal |-> "none", next_group_id |-> "", group_id |-> "",
             session_id |-> "", completed_groups |-> {}]

\* The lock directory: info is "none" (no info file), "malformed" or "ok";
\* owner is the process whose mkdir created the directory.
NoLock ==
    [exists |-> FALSE, info |-> "none", pid |-> 0, timestamp |-> 0, mtime |-> 0, owner |-> 0]

\* No backup file and no unified document yet; written is the set of
\* artifacts the write sequence has written since the backups were taken.
NoDisk ==
    [index_exists |-> FALSE,
     plan_prev |-> NoPlan,
     index_prev |-> [exists |-> FALSE, sessions |-> <<>>],
     unified |-> [exists |-> FALSE, plan |-> NoPlan, index |-> <<>>],
     written |-> {}]

NoFile == [exists |-> FALSE, payload |-> <<>>, chunks |-> 0]
NoLoad == [status |-> "none", value |-> <<>>]

\* No write of a single file is followed step by step.
NoWrite ==
    /\ doc = <<>>
    /\ file = NoFile
    /\ tmp = NoFile
    /\ wpc = "idle"
    /\ got = NoLoad

\* The sequential specifications run no lock protocol.
NoProcesses ==
    /\ impl = "StateLock"
    /\ lock = NoLock
    /\ time = 0
    /\ pc = <<>>
    /\ deadline = <<>>
    /\ held = <<>>
    /\ created = <<>>
    /\ nested = <<>>
    /\ loaded = <<>>
    /\ disk = NoDisk

\* No get_group_status call has returned.
NoSummary == [asked |-> "", status |-> "none"]
NoMade == [call |-> "none", status |-> "none"]
NoUnified == [exists |-> FALSE, chunks |-> 0, section |-> "absent", payload |-> <<>>]
NoQuery == summary = NoSummary /\ made = NoMade /\ unified = NoUnified

LockIdle == NoProcesses /\ NoWrite /\ NoQuery

InitInputs ==
    /\ LockIdle
    /\ index = <<>>
    /\ result = NoResult
    /\ clock = 0
    /\ snapshot \in Snapshots
    /\ target = 1
    /\ completed \in {{}, {"g1 "}}
    /\ calls = "init"
    /\ maxStage = 0
    /\ stageDrop = FALSE
    /\ dispatched = {}

\* The planner's own sequences: no plan exists before the first call.
InitPlan == InitInputs /\ plan = NoPlan

\* Any current plan may be handed to the first call.
InitPlanAny == InitInputs /\ plan \in {NoPlan, StalePlan}

PlanGroupIds(p) == {p.groups[i].group_id : i \in 1..Len(p.groups)}

\* One call of build_next_plan with the current inputs.
Call ==
    \E order \in IterOrders :
        LET built == BuildNextPlan(plan, completed, target, snapshot, order)
            reused == InFlight(plan, {Strip(g) : g \in completed}, target)
            fresh == ~reused /\ built.exists
        IN /\ plan' = built
           /\ calls' = IF reused THEN "reused" ELSE IF fresh THEN "fresh" ELSE "none"
           /\ maxStage' = IF fresh /\ built.groups[1].stage > maxStage THEN built.groups[1].stage ELSE maxStage
           /\ stageDrop' = (stageDrop \/ (fresh /\ built.groups[1].stage < maxStage))
           /\ dispatched' = dispatched \cup PlanGroupIds(built)
           /\ UNCHANGED <<snapshot, target, completed, signalVars, lockVars, loaded, disk, fileVars, statusVars>>

\* A group of the current wave completes and joins the completed set.
CompleteGroup ==
    /\ calls # "init"
    /\ \E g \in PlanGroupIds(plan) \ completed :
           completed' = completed \cup {g}
    /\ calls' = "progress"
    /\ UNCHANGED <<snapshot, target, plan, maxStage, stageDrop, dispatched, signalVars, lockVars, loaded, disk, fileVars, statusVars>>

NextPlan == Call \/ CompleteGroup

vars == <<planVars, signalVars, lockVars, loaded, disk, fileVars, statusVars>>

SpecPlan == InitPlan /\ [][NextPlan]_vars

SpecPlanAny == InitPlanAny /\ [][NextPlan]_vars

----------------------------------------------------------------------------
(* The coordination entrypoint: bin/backlog_bridge.py                       *)

SUCCESS_STATUSES == {"completed", "complete", "success", "succeeded", "ok"}

\* _normalize_status: (value or "").strip().lower() or "completed"
NormalizeStatus(value) ==
    CASE value = "" -> "completed"
      [] value = "OK" -> "ok"
      [] value = "Failed " -> "failed"
      [] OTHER -> value

\* Mutant: "done" counts as a success status too.
IsSuccessStatusDone(value) == value \in SUCCESS_STATUSES \cup {"done"}

IsSuccessStatus(value) == value \in SUCCESS_STATUSES

SessionIndexEntry(session_id, task_id, created_at, updated_at, status, group_id, subagent_type) ==
    [session_id |-> session_id, task_id |-> task_id, created_at |-> created_at,
     updated_at |-> updated_at, status |-> status, group_id |-> group_id,
     subagent_type |-> subagent_type]

EntryIndex(entries, session_id) ==
    IF \E i \in 1..Len(entries) : entries[i].session_id = session_id
    THEN CHOOSE i \in 1..Len(entries) :
             /\ entries[i].session_id = session_id
             /\ \A k \in 1..(i-1) : entries[k].session_id # session_id
    ELSE 0

\* Mutant: the new entry is always appended.
UpdateSessionIndexAppend(entries, session_id, task_id, status, group_id, subagent_type, now) ==
    Append(entries,
        SessionIndexEntry(session_id, task_id, now, now, status, group_id, subagent_type))

\* _update_session_index: the first entry of the session is replaced in
\* place (created_at kept), else a new entry is appended.
UpdateSessionIndex(entries, session_id, task_id, status, group_id, subagent_type, now) ==
    LET idx == EntryIndex(entries, session_id)
    IN IF idx # 0
       THEN [entries EXCEPT ![idx] =
                SessionIndexEntry(session_id, task_id, entries[idx].created_at, now,
                                  status, group_id, subagent_type)]
       ELSE Append(entries,
                SessionIndexEntry(session_id, task_id, now, now, status, group_id, subagent_type))

\* Mutant: every group of the plan gets the new status.
UpdatePlanStatusAll(p, group_id, new_status, completed_at) ==
    ExecutionPlan([i \in 1..Len(p.groups) |->
        [p.groups[i] EXCEPT
            !.status = new_status,
            !.started_at = IF @ # 0 THEN @ ELSE completed_at,
            !.completed_at = completed_at]])

\* _update_plan_status: the named group gets the new status and timestamps
\* (0 stands for None); every other group is kept.
UpdatePlanStatus(p, group_id, new_status, completed_at) ==
    ExecutionPlan([i \in 1..Len(p.groups) |->
        IF p.groups[i].group_id # group_id THEN p.groups[i]
        ELSE [p.groups[i] EXCEPT
                 !.status = new_status,
                 !.started_at = IF @ # 0 THEN @ ELSE completed_at,
                 !.completed_at = completed_at]])

\* Mutant: a group counts as successful only when every entry of it succeeded.
SuccessfulGroupsAllEntries(entries) ==
    {entries[i].group_id : i \in {k \in 1..Len(entries) :
        /\ entries[k].group_id # ""
        /\ \A m \in 1..Len(entries) :
               entries[m].group_id = entries[k].group_id => IsSuccessStatus(entries[m].status)}}

\* _successful_groups: the group ids that have an entry with a success status.
SuccessfulGroups(entries) ==
    {entries[i].group_id : i \in {k \in 1..Len(entries) :
        entries[k].group_id # "" /\ IsSuccessStatus(entries[k].status)}}

\* _collect_metadata: the task must be in the snapshot and carry an
\* orchestration block; its bootstrap stage is the requested stage.
KnownTask(snap, task_id) ==
    \E i \in 1..Len(snap) : snap[i].id = task_id /\ HasMetadata(snap[i])
BootstrapStageOf(snap, task_id) ==
    snap[CHOOSE i \in 1..Len(snap) : snap[i].id = task_id].bootstrap_stage

\* load_execution_plan / load_session_index from their files: a missing
\* plan file loads as an empty ExecutionPlan.
LoadExecutionPlan(target_file) ==
    IF target_file.exists THEN target_file ELSE ExecutionPlan(<<>>)

\* _create_backup of the plan file and of the index file: a file that does
\* not exist has no backup, and the previous .prev file stays.
CreateBackups(d, plan_file, index_file) ==
    [d EXCEPT !.plan_prev = IF plan_file.exists THEN plan_file ELSE @,
              !.index_prev = IF d.index_exists
                             THEN [exists |-> TRUE, sessions |-> index_file] ELSE @,
              !.written = {}]

\* save_orchestration_state: the index and the plan go into the unified
\* document under metadata.orchestration.
SaveOrchestrationState(d, session_index, execution_plan) ==
    [d EXCEPT !.unified = [exists |-> TRUE, plan |-> execution_plan, index |-> session_index],
              !.written = @ \cup {"unified"}]

\* The steps of the write sequence at which an exception can surface: the
\* plan write, the index write, the unified-document write.
FailPoints == {"plan", "index", "unified"}

\* What raises there: an OSError of the write, or the TimeoutError of the
\* StateLock that save_orchestration_state takes on the unified document
\* while another writer holds it.
FailErrors(at) == IF at = "unified" THEN {"OSError", "TimeoutError"} ELSE {"OSError"}

\* _restore_backup of both files after the write sequence raised at `at`:
\* a file that had a backup is copied back from its .prev file, a file that
\* had none (it did not exist) is left as the sequence wrote it.
RestoreBackups(d, plan_file, index_file, out, at) ==
    LET backed == CreateBackups(d, plan_file, index_file)
        wrote_plan == at \in {"index", "unified"}
        wrote_index == at = "unified"
    IN [plan |-> IF wrote_plan /\ ~plan_file.exists THEN out.plan
                 ELSE IF plan_file.exists THEN backed.plan_prev ELSE plan_file,
        index |-> IF wrote_index /\ ~d.index_exists THEN out.index
                  ELSE IF d.index_exists THEN backed.index_prev.sessions ELSE index_file,
        disk |-> [backed EXCEPT !.index_exists = @ \/ wrote_index,
                                !.written = {a \in {"plan", "index"} :
                                                \/ a = "plan" /\ wrote_plan
                                                \/ a = "index" /\ wrote_index}]]

\* The body of _handle_subagent_stop between loading and saving: what is
\* persisted and what is returned, from what was loaded.
StopOutcome(loaded_plan, loaded_index, args, snap, now, order) ==
    LET bootstrap_stage == BootstrapStageOf(snap, args.task_id)
        normalized_status == NormalizeStatus(args.exit_status)
        updated_index == UpdateSessionIndex(loaded_index, args.session_id, args.task_id,
                             normalized_status, args.group_id, args.subagent_type, now)
        success == IsSuccessStatus(normalized_status)
        new_plan == UpdatePlanStatus(loaded_plan, args.group_id,
                        IF success THEN "completed" ELSE "failed", now)
        completed_groups == SuccessfulGroups(updated_index)
        next_plan == BuildNextPlan(new_plan, completed_groups, bootstrap_stage, snap, order)
        persisted_plan == IF success
                          THEN (IF next_plan.exists THEN next_plan ELSE ExecutionPlan(<<>>))
                          ELSE new_plan
        some == success /\ Len(persisted_plan.groups) > 0
    IN [index |-> updated_index,
        plan |-> persisted_plan,
        bootstrap_stage |-> bootstrap_stage,
        result |->
            [status |-> IF some THEN "next-group" ELSE IF success THEN "complete" ELSE "failed",
             signal |-> IF some THEN "execute_plan:group"
                        ELSE IF success THEN "execute_plan:complete" ELSE "execute_plan:halt",
             next_group_id |-> IF some THEN persisted_plan.groups[1].group_id ELSE "",
             group_id |-> args.group_id,
             session_id |-> args.session_id,
             completed_groups |-> completed_groups]]


----------------------------------------------------------------------------
(* SpecSignal: completion signals handled one after another.  Each          *)
(* invocation runs alone, so its lock acquisition succeeds at once and the  *)
(* whole handler is one step.                                               *)

MaxSignals == 3

SessionIds == {"s1", "s2"}
ExitStatuses == {"completed", "failed", "done"}

\* g1 = {T1, T2} and g2 = {T3}, which depends on g1.
TwoTaskGroup ==
    <<Task("T1", "g1", 1, 1, <<>>, "pending", 60, "ctx"),
      Task("T2", "g1", 1, 1, <<>>, "pending", 0, ""),
      Task("T3", "g2", 1, 2, <<"g1">>, "pending", 30, "")>>

\* g1 = {T1} and g2 = {T2} form one wave; g3 = {T3} depends on T1.
TwoGroupWave ==
    <<Task("T1", "g1", 1, 1, <<>>, "pending", 60, "ctx"),
      Task("T2", "g2", 1, 1, <<>>, "pending", 0, ""),
      Task("T3", "g3", 1, 2, <<"T1">>, "pending", 30, "")>>

\* g1 = {T1}; g2 = {T2} depends on a token that names no task and no group;
\* g3 = {T3} belongs to bootstrap stage 2.
BlockedWave ==
    <<Task("T1", "g1", 1, 1, <<>>, "pending", 60, "ctx"),
      Task("T2", "g2", 1, 1, <<"zz">>, "pending", 0, ""),
      Task("T3", "g3", 2, 1, <<>>, "pending", 30, "")>>

SignalSnapshots == {TwoTaskGroup, TwoGroupWave, ScenarioA, BlockedWave}

InitSignal ==
    /\ LockIdle
    /\ snapshot \in SignalSnapshots
    /\ target = 1
    /\ completed = {}
    /\ plan = NoPlan
    /\ calls = "init"
    /\ maxStage = 0
    /\ stageDrop = FALSE
    /\ dispatched = {}
    /\ index = <<>>
    /\ result = NoResult
    /\ clock = 0

Args(session_id, task_id, group_id, exit_status) ==
    [session_id |-> session_id, task_id |-> task_id, group_id |-> group_id,
     subagent_type |-> "worker", exit_status |-> exit_status]

\* _handle_subagent_stop for a task of the snapshot: load, update, plan, save, signal.
HandleSubagentStop ==
    /\ clock < MaxSignals
    /\ \E out \in
           {StopOutcome(LoadExecutionPlan(plan), index,
                Args(sid, snapshot[i].id, snapshot[i].stage_group_id, st),
                snapshot, clock + 1, order) :
              sid \in SessionIds,
              i \in {k \in 1..Len(snapshot) : KnownTask(snapshot, snapshot[k].id)},
              st \in ExitStatuses, order \in IterOrders} :
          /\ plan' = out.plan
          /\ index' = out.index
          /\ result' = out.result
          /\ target' = out.bootstrap_stage
          /\ completed' = out.result.completed_groups
          /\ disk' = SaveOrchestrationState(
                         [CreateBackups(disk, plan, index) EXCEPT !.index_exists = TRUE,
                                                                  !.written = {"plan", "index"}],
                         out.index, out.plan)
    /\ clock' = clock + 1
    /\ UNCHANGED <<snapshot, calls, maxStage, stageDrop, dispatched, lockVars, loaded, fileVars, statusVars>>

\* _handle_subagent_stop when its write sequence raises: the backups are
\* restored, the exception propagates, main prints it and returns 1.
StopSaveFails ==
    /\ clock < MaxSignals
    /\ \E at \in FailPoints :
          /\ \E after \in
                 {RestoreBackups(disk, plan, index,
                      StopOutcome(LoadExecutionPlan(plan), index,
                          Args(sid, snapshot[i].id, snapshot[i].stage_group_id, st),
                          snapshot, clock + 1, order),
                      at) :
                    sid \in SessionIds,
                    i \in {k \in 1..Len(snapshot) : KnownTask(snapshot, snapshot[k].id)},
                    st \in ExitStatuses, order \in IterOrders} :
                /\ plan' = after.plan
                /\ index' = after.index
                /\ disk' = after.disk
          /\ \E err \in FailErrors(at) : result' = [NoResult EXCEPT !.status = err]
    /\ clock' = clock + 1
    /\ UNCHANGED <<snapshot, target, completed, calls, maxStage, stageDrop, dispatched,
                   lockVars, loaded, fileVars, statusVars>>

\* _collect_metadata raises BacklogBridgeError for a task that is unknown or
\* lacks orchestration metadata: main returns 1 and nothing is written.
StopRejected ==
    /\ clock < MaxSignals
    /\ \E sid \in SessionIds, i \in 1..Len(snapshot) :
          /\ ~KnownTask(snapshot, snapshot[i].id)
          /\ result' = [NoResult EXCEPT !.status = "error", !.session_id = sid]
    /\ clock' = clock + 1
    /\ UNCHANGED <<snapshot, target, completed, plan, calls, maxStage, stageDrop, dispatched, index,
                   lockVars, loaded, disk, fileVars, statusVars>>

NextSignal == HandleSubagentStop \/ StopSaveFails \/ StopRejected

SpecSignal == InitSignal /\ [][NextSignal]_vars


----------------------------------------------------------------------------
(* The directory lock: StateLock (state/bridge.py) and _lock                *)
(* (hooks/shared_state.py).  Each process makes one acquisition; every      *)
(* file-system call of the acquisition loop is a step of its own, so that   *)
(* the calls of different processes interleave.                             *)

NumProcs == 2
MaxTime == 3

\* timeout and stale_timeout, in seconds; one tick of time is one second.
\* The poll interval (0.05 s) is shorter than a tick: a sleeper is ready
\* again at the next tick.
Timeout == 1
StaleTimeout == 30

Procs == 1..NumProcs
LockImpls == {"StateLock", "_lock"}

\* The pid of a process that has exited before the run starts.
DeadPid == NumProcs + 1

\* A lock directory left behind by DeadPid longer ago than stale_timeout.
StaleLeftover ==
    [exists |-> TRUE, info |-> "ok", pid |-> DeadPid,
     timestamp |-> 0 - (StaleTimeout + 1), mtime |-> 0 - (StaleTimeout + 1), owner |-> DeadPid]

\* Positions inside the with-block.
CSPositions == {"cs", "loaded", "backed_up", "plan_saved", "index_saved", "saved"}
InCS(p) == pc[p] \in CSPositions

\* Positions of a process that no longer exists.
ExitedPositions == {"done", "timeout", "oserror", "reentry", "dead"}

\* os.kill(pid, 0): whether a process with this pid exists.
ProcessAlive(pid) == pid \in Procs /\ pc[pid] \notin ExitedPositions

\* StateLock._cleanup_stale_lock: whether it decides to remove the directory.
CleanupStaleLock(l, t) ==
    IF ~l.exists THEN FALSE
    ELSE IF l.info # "ok" THEN t - l.mtime > StaleTimeout
    ELSE IF t - l.timestamp <= StaleTimeout THEN FALSE
    ELSE IF l.pid <= 0 THEN t - l.mtime > StaleTimeout
    ELSE ~ProcessAlive(l.pid)

\* Mutant: the stale check of _lock without the test of its own pid.
LockStaleCheckNoReentry(l, p, t) ==
    IF ~l.exists \/ l.info = "none" THEN "keep"
    ELSE IF l.info = "malformed"
         THEN (IF t > deadline[p] THEN "remove" ELSE "keep")
    ELSE IF t - l.timestamp > StaleTimeout THEN "remove"
    ELSE IF ~ProcessAlive(l.pid) THEN "remove"
    ELSE "keep"

\* The stale check at the head of _lock's loop: "reentry" (RuntimeError),
\* "remove" or "keep".
LockStaleCheck(l, p, t) ==
    IF ~l.exists \/ l.info = "none" THEN "keep"
    ELSE IF l.info = "malformed"
         THEN (IF t > deadline[p] THEN "remove" ELSE "keep")
    ELSE IF l.pid = p THEN "reentry"
    ELSE IF t - l.timestamp > StaleTimeout THEN "remove"
    ELSE IF ~ProcessAlive(l.pid) THEN "remove"
    ELSE "keep"

InitLock ==
    /\ impl \in LockImpls
    /\ lock \in {NoLock, StaleLeftover}
    /\ time = 0
    /\ pc = [p \in Procs |-> "idle"]
    /\ deadline = [p \in Procs |-> 0]
    /\ held = [p \in Procs |-> FALSE]
    /\ created = [p \in Procs |-> FALSE]
    /\ nested = [p \in Procs |-> "none"]

\* __enter__ / _lock up to the loop: the deadline is fixed.
Start(p) ==
    /\ pc[p] = "idle"
    /\ time + Timeout + 1 <= MaxTime
    /\ deadline' = [deadline EXCEPT ![p] = time + Timeout]
    /\ pc' = [pc EXCEPT ![p] = "check"]
    /\ UNCHANGED <<impl, lock, time, held, created, nested, dataVars>>

\* The stale check reads the lock directory and its info and decides.
CleanupCheck(p) ==
    /\ pc[p] = "check"
    /\ pc' = [pc EXCEPT ![p] =
                 IF impl = "StateLock"
                 THEN (IF CleanupStaleLock(lock, time) THEN "rmtree" ELSE "mkdir")
                 ELSE (CASE LockStaleCheck(lock, p, time) = "reentry" -> "reentry"
                         [] LockStaleCheck(lock, p, time) = "remove" -> "rmtree"
                         [] OTHER -> "mkdir")]
    /\ UNCHANGED <<impl, lock, time, deadline, held, created, nested, dataVars>>

\* shutil.rmtree of the lock directory, whatever it holds by now.
Rmtree(p) ==
    /\ pc[p] = "rmtree"
    /\ lock' = NoLock
    /\ pc' = [pc EXCEPT ![p] = "mkdir"]
    /\ UNCHANGED <<impl, time, deadline, held, created, nested, dataVars>>

\* lock_dir.mkdir(): creates the directory, or FileExistsError, after which
\* the caller times out or sleeps.
Mkdir(p) ==
    /\ pc[p] = "mkdir"
    /\ IF ~lock.exists
       THEN /\ lock' = [NoLock EXCEPT !.exists = TRUE, !.mtime = time, !.owner = p]
            /\ created' = [created EXCEPT ![p] = TRUE]
            /\ pc' = [pc EXCEPT ![p] = "write_info"]
       ELSE /\ pc' = [pc EXCEPT ![p] = IF time > deadline[p] THEN "timeout" ELSE "sleep"]
            /\ UNCHANGED <<lock, created>>
    /\ UNCHANGED <<impl, time, deadline, held, nested, dataVars>>

\* _write_lock_info: write_text into the lock directory; FileNotFoundError
\* when the directory is gone, which neither lock catches.
WriteInfo(p) ==
    /\ pc[p] = "write_info"
    /\ IF lock.exists
       THEN /\ lock' = [lock EXCEPT !.info = "ok", !.pid = p, !.timestamp = time, !.mtime = time]
            /\ held' = [held EXCEPT ![p] = TRUE]
            /\ pc' = [pc EXCEPT ![p] = "cs"]
       ELSE /\ pc' = [pc EXCEPT ![p] = "oserror"]
            /\ UNCHANGED <<lock, held>>
    /\ UNCHANGED <<impl, time, deadline, created, nested, dataVars>>

\* write_text of the info record raises OSError although the directory is
\* there (no space left, no permission); neither lock catches it, and the
\* directory stays.
WriteInfoFails(p) ==
    /\ pc[p] = "write_info"
    /\ lock.exists
    /\ pc' = [pc EXCEPT ![p] = "oserror"]
    /\ UNCHANGED <<impl, lock, time, deadline, held, created, nested, dataVars>>

\* release / the finally of _lock: StateLock removes the directory if it
\* holds the lock, _lock removes it unconditionally.
Release(p) ==
    /\ pc[p] = "saved"
    /\ lock' = IF impl = "_lock" \/ held[p] THEN NoLock ELSE lock
    /\ held' = [held EXCEPT ![p] = FALSE]
    /\ pc' = [pc EXCEPT ![p] = "done"]
    /\ UNCHANGED <<impl, time, deadline, created, nested, dataVars>>

\* A process is killed during its acquisition or inside the with-block; its
\* lock directory stays.  At most one process is killed.
Crash(p) ==
    /\ pc[p] \notin ExitedPositions \cup {"idle"}
    /\ \A q \in Procs : pc[q] # "dead"
    /\ pc' = [pc EXCEPT ![p] = "dead"]
    /\ UNCHANGED <<impl, lock, time, deadline, held, created, nested, dataVars>>

\* A second passes; the sleepers' poll interval is over.
Tick ==
    /\ time < MaxTime
    /\ time' = time + 1
    /\ pc' = [p \in Procs |-> IF pc[p] = "sleep" THEN "check" ELSE pc[p]]
    /\ nested' = [p \in Procs |-> IF nested[p] = "sleep" THEN "check" ELSE nested[p]]
    /\ UNCHANGED <<impl, lock, deadline, held, created, dataVars>>

----------------------------------------------------------------------------
(* A second acquisition of the same lock path by a process that is inside   *)
(* its with-block: a new StateLock object entered, or _lock called again.   *)
(* pc[p] stays "cs" while nested[p] follows the inner acquisition loop; an  *)
(* exception of the inner acquisition leaves the body of the outer block,   *)
(* whose exit then releases (Release).                                      *)

\* The inner __enter__ / _lock up to the loop: its own deadline is fixed.
\* The processes run the same code: process 1 is the one that nests.
NestedStart(p) ==
    /\ p = 1
    /\ pc[p] = "cs"
    /\ nested[p] = "none"
    /\ time + Timeout + 1 <= MaxTime
    /\ deadline' = [deadline EXCEPT ![p] = time + Timeout]
    /\ nested' = [nested EXCEPT ![p] = "check"]
    /\ UNCHANGED <<impl, lock, time, pc, held, created, dataVars>>

\* The inner stale check: _lock raises RuntimeError on its own pid.
NestedCheck(p) ==
    /\ pc[p] = "cs"
    /\ nested[p] = "check"
    /\ LET to == IF impl = "StateLock"
                 THEN (IF CleanupStaleLock(lock, time) THEN "rmtree" ELSE "mkdir")
                 ELSE (CASE LockStaleCheck(lock, p, time) = "reentry" -> "reentry"
                         [] LockStaleCheck(lock, p, time) = "remove" -> "rmtree"
                         [] OTHER -> "mkdir")
       IN /\ nested' = [nested EXCEPT ![p] = to]
          /\ pc' = [pc EXCEPT ![p] = IF to = "reentry" THEN "saved" ELSE @]
    /\ UNCHANGED <<impl, lock, time, deadline, held, created, dataVars>>

\* The inner shutil.rmtree of the lock directory.
NestedRmtree(p) ==
    /\ pc[p] = "cs"
    /\ nested[p] = "rmtree"
    /\ lock' = NoLock
    /\ nested' = [nested EXCEPT ![p] = "mkdir"]
    /\ UNCHANGED <<impl, time, pc, deadline, held, created, dataVars>>

\* The inner mkdir: success, or FileExistsError followed by TimeoutError or sleep.
NestedMkdir(p) ==
    /\ pc[p] = "cs"
    /\ nested[p] = "mkdir"
    /\ IF ~lock.exists
       THEN /\ lock' = [NoLock EXCEPT !.exists = TRUE, !.mtime = time, !.owner = p]
            /\ nested' = [nested EXCEPT ![p] = "write_info"]
            /\ pc' = pc
       ELSE /\ nested' = [nested EXCEPT ![p] = IF time > deadline[p] THEN "timeout" ELSE "sleep"]
            /\ pc' = [pc EXCEPT ![p] = IF time > deadline[p] THEN "saved" ELSE @]
            /\ lock' = lock
    /\ UNCHANGED <<impl, time, deadline, held, created, dataVars>>

\* The inner info write: the process holds the lock a second time.
NestedWriteInfo(p) ==
    /\ pc[p] = "cs"
    /\ nested[p] = "write_info"
    /\ IF lock.exists
       THEN /\ lock' = [lock EXCEPT !.info = "ok", !.pid = p, !.timestamp = time, !.mtime = time]
            /\ nested' = [nested EXCEPT ![p] = "held"]
            /\ pc' = pc
       ELSE /\ nested' = [nested EXCEPT ![p] = "oserror"]
            /\ pc' = [pc EXCEPT ![p] = "saved"]
            /\ lock' = lock
    /\ UNCHANGED <<impl, time, deadline, held, created, dataVars>>

\* The inner with-block ends: the inner object's release, or the finally of
\* the inner _lock, removes the directory.
NestedRelease(p) ==
    /\ pc[p] = "cs"
    /\ nested[p] = "held"
    /\ lock' = NoLock
    /\ nested' = [nested EXCEPT ![p] = "released"]
    /\ UNCHANGED <<impl, time, pc, deadline, held, created, dataVars>>

----------------------------------------------------------------------------
(* SpecLock: the processes contend for one lock, of either implementation,  *)
(* around an empty with-block.                                              *)

\* The with-block's body ends, by completing or by raising.
ExitCS(p) ==
    /\ pc[p] = "cs"
    /\ nested[p] \in {"none", "released"}
    /\ pc' = [pc EXCEPT ![p] = "saved"]
    /\ UNCHANGED <<impl, lock, time, deadline, held, created, nested, dataVars>>

\* Process 1 has been inside the with-block for longer than stale_timeout.
OldHolder ==
    [exists |-> TRUE, info |-> "ok", pid |-> 1,
     timestamp |-> 0 - (StaleTimeout + 1), mtime |-> 0 - (StaleTimeout + 1), owner |-> 1]

InitOldHolder ==
    /\ impl \in LockImpls
    /\ lock = OldHolder
    /\ time = 0
    /\ pc = [p \in Procs |-> IF p = 1 THEN "cs" ELSE "idle"]
    /\ deadline = [p \in Procs |-> 0]
    /\ held = [p \in Procs |-> p = 1]
    /\ created = [p \in Procs |-> p = 1]
    /\ nested = [p \in Procs |-> "none"]

\* A lock directory without a readable info record, left longer ago than
\* stale_timeout by a holder that died before or while writing the record.
OrphanLocks ==
    {[exists |-> TRUE, info |-> i, pid |-> 0, timestamp |-> 0,
      mtime |-> 0 - (StaleTimeout + 1), owner |-> DeadPid] : i \in {"none", "malformed"}}

InitOrphan ==
    /\ impl \in LockImpls
    /\ lock \in OrphanLocks
    /\ time = 0
    /\ pc = [p \in Procs |-> "idle"]
    /\ deadline = [p \in Procs |-> 0]
    /\ held = [p \in Procs |-> FALSE]
    /\ created = [p \in Procs |-> FALSE]
    /\ nested = [p \in Procs |-> "none"]

InitSpecLock ==
    /\ (InitLock \/ InitOldHolder \/ InitOrphan)
    /\ snapshot = <<>>
    /\ target = 1
    /\ completed = {}
    /\ plan = NoPlan
    /\ calls = "init"
    /\ maxStage = 0
    /\ stageDrop = FALSE
    /\ dispatched = {}
    /\ index = <<>>
    /\ result = NoResult
    /\ clock = 0
    /\ loaded = <<>>
    /\ disk = NoDisk
    /\ NoWrite
    /\ NoQuery

NextLock ==
    \/ \E p \in Procs :
          \/ Start(p) \/ CleanupCheck(p) \/ Rmtree(p) \/ Mkdir(p) \/ WriteInfo(p)
          \/ WriteInfoFails(p) \/ ExitCS(p) \/ Release(p) \/ Crash(p)
    \/ Tick

SpecLock == InitSpecLock /\ [][NextLock]_vars

\* SpecNested: the processes contend for one lock, every info write
\* succeeds, and a process inside its with-block may acquire the same path
\* again.
NextNested ==
    \/ \E p \in Procs :
          \/ Start(p) \/ CleanupCheck(p) \/ Rmtree(p) \/ Mkdir(p) \/ WriteInfo(p)
          \/ ExitCS(p) \/ Release(p) \/ Crash(p)
          \/ NestedStart(p) \/ NestedCheck(p) \/ NestedRmtree(p) \/ NestedMkdir(p)
          \/ NestedWriteInfo(p) \/ NestedRelease(p)
    \/ Tick

InitNested == InitSpecLock /\ lock \notin OrphanLocks

SpecNested == InitNested /\ [][NextNested]_vars

----------------------------------------------------------------------------
(* Spec: concurrent completion signals.  Process p reports the success or   *)
(* failure of the p-th task of the snapshot under its own session id; the   *)
(* entrypoint's loads and saves are steps inside StateLock's with-block.    *)

SessionOf(p) == IF p = 1 THEN "s1" ELSE IF p = 2 THEN "s2" ELSE "s3"

Idle == [out |-> NoResult, plan |-> NoPlan, index |-> <<>>]

InitSpec ==
    /\ InitLock
    /\ impl = "StateLock"
    /\ snapshot = TwoGroupWave
    /\ target = 1
    /\ completed = {}
    /\ plan = NoPlan
    /\ calls = "init"
    /\ maxStage = 0
    /\ stageDrop = FALSE
    /\ dispatched = {}
    /\ index = <<>>
    /\ result = NoResult
    /\ clock = 0
    /\ loaded = [p \in Procs |-> Idle]
    /\ disk = NoDisk
    /\ NoWrite
    /\ NoQuery

\* load_execution_plan, load_session_index and everything computed from them
\* before the first write.
Load(p) ==
    /\ pc[p] = "cs"
    /\ \E st \in {"completed", "failed"}, order \in IterOrders :
          LET args == Args(SessionOf(p), snapshot[p].id, snapshot[p].stage_group_id, st)
              out == StopOutcome(LoadExecutionPlan(plan), index, args, snapshot, time + 1, order)
          IN loaded' = [loaded EXCEPT ![p] = [out |-> out.result, plan |-> out.plan,
                                              index |-> out.index]]
    /\ pc' = [pc EXCEPT ![p] = "loaded"]
    /\ UNCHANGED <<planVars, signalVars, impl, lock, time, deadline, held, created, nested, disk, fileVars, statusVars>>

\* _create_backup of the plan file and of the index file.
Backup(p) ==
    /\ pc[p] = "loaded"
    /\ disk' = CreateBackups(disk, plan, index)
    /\ pc' = [pc EXCEPT ![p] = "backed_up"]
    /\ UNCHANGED <<planVars, signalVars, impl, lock, time, deadline, held, created, nested, loaded, fileVars, statusVars>>

\* save_execution_plan: the plan file is replaced atomically.
SavePlan(p) ==
    /\ pc[p] = "backed_up"
    /\ plan' = loaded[p].plan
    /\ disk' = [disk EXCEPT !.written = @ \cup {"plan"}]
    /\ pc' = [pc EXCEPT ![p] = "plan_saved"]
    /\ UNCHANGED <<snapshot, target, completed, calls, maxStage, stageDrop, dispatched,
                   signalVars, impl, lock, time, deadline, held, created, nested, loaded, fileVars, statusVars>>

\* save_session_index: the index file is replaced atomically.
SaveIndex(p) ==
    /\ pc[p] = "plan_saved"
    /\ index' = loaded[p].index
    /\ disk' = [disk EXCEPT !.index_exists = TRUE, !.written = @ \cup {"index"}]
    /\ pc' = [pc EXCEPT ![p] = "index_saved"]
    /\ UNCHANGED <<planVars, result, clock, impl, lock, time, deadline, held, created, nested, loaded, fileVars, statusVars>>

\* save_orchestration_state, then the result is built and returned.
SaveUnified(p) ==
    /\ pc[p] = "index_saved"
    /\ disk' = SaveOrchestrationState(disk, loaded[p].index, loaded[p].plan)
    /\ result' = loaded[p].out
    /\ completed' = loaded[p].out.completed_groups
    /\ pc' = [pc EXCEPT ![p] = "saved"]
    /\ UNCHANGED <<snapshot, target, plan, calls, maxStage, stageDrop, dispatched, index, clock,
                   impl, lock, time, deadline, held, created, nested, loaded, fileVars, statusVars>>

Next ==
    \/ \E p \in Procs :
          \/ Start(p) \/ CleanupCheck(p) \/ Rmtree(p) \/ Mkdir(p) \/ WriteInfo(p)
          \/ WriteInfoFails(p) \/ Load(p) \/ Backup(p) \/ SavePlan(p) \/ SaveIndex(p) \/ SaveUnified(p)
          \/ Release(p) \/ Crash(p)
    \/ Tick

Spec == InitSpec /\ [][Next]_vars


----------------------------------------------------------------------------
(* SpecPersist: one save of a plan or of an index to its file, followed     *)
(* call by call (_atomic_write_json, _atomic_write), with a reader loading  *)
(* the destination at any moment.                                           *)

\* The writes into the temporary file: json.dump, then handle.write("\n").
NChunks == 2

GroupStatusValues == {"pending", "running", "completed", "blocked", "failed"}

\* An Optional field in JSON: null for None (0 in the model).
JsonOpt(v) == [null |-> v = 0, v |-> v]
FromJsonOpt(j) == IF j.null THEN 0 ELSE j.v

\* A dict rendered with sort_keys=True: its items by ascending key.
RECURSIVE SortedItems(_)
SortedItems(S) ==
    IF S = {} THEN <<>>
    ELSE LET x == CHOOSE y \in S : \A z \in S : IdRank(y[1]) <= IdRank(z[1])
         IN <<x>> \o SortedItems(S \ {x})

\* Mutant: the dict of a group without its depends_on.
GroupToDictNoDeps(g) ==
    [group_id |-> g.group_id, task_ids |-> g.task_ids, parallel |-> g.parallel,
     agent_type |-> g.agent_type, sandbox |-> g.sandbox,
     bootstrap_stage |-> g.bootstrap_stage, phase |-> g.phase, stage |-> g.stage,
     depends_on |-> <<>>,
     estimated_duration |-> JsonOpt(g.estimated_duration),
     context_refs |-> SortedItems(g.context_refs),
     status |-> g.status,
     started_at |-> JsonOpt(g.started_at), completed_at |-> JsonOpt(g.completed_at)]

\* ExecutionGroup.to_dict
GroupToDict(g) ==
    [group_id |-> g.group_id, task_ids |-> g.task_ids, parallel |-> g.parallel,
     agent_type |-> g.agent_type, sandbox |-> g.sandbox,
     bootstrap_stage |-> g.bootstrap_stage, phase |-> g.phase, stage |-> g.stage,
     depends_on |-> g.depends_on,
     estimated_duration |-> JsonOpt(g.estimated_duration),
     context_refs |-> SortedItems(g.context_refs),
     status |-> g.status,
     started_at |-> JsonOpt(g.started_at), completed_at |-> JsonOpt(g.completed_at)]

\* Mutant: __post_init__ without the test for a dependency on itself.
GroupPostInitValidNoSelf(g) ==
    /\ \A i \in 1..Len(g.depends_on) :
          /\ Strip(g.depends_on[i]) # ""
          /\ \A k \in 1..(i-1) : Strip(g.depends_on[k]) # Strip(g.depends_on[i])
    /\ g.phase >= 1
    /\ g.stage >= 1

\* ExecutionGroup.__post_init__ does not raise ValueError: every dependency
\* is a non-empty string that, stripped, is neither the group's id nor an
\* earlier dependency; phase and stage are at least 1.
GroupPostInitValid(g) ==
    /\ \A i \in 1..Len(g.depends_on) :
          /\ Strip(g.depends_on[i]) # ""
          /\ Strip(g.depends_on[i]) # g.group_id
          /\ \A k \in 1..(i-1) : Strip(g.depends_on[k]) # Strip(g.depends_on[i])
    /\ g.phase >= 1
    /\ g.stage >= 1

\* ExecutionGroup.from_dict does not raise ValueError: GroupStatus(status_str)
\* and __post_init__ accept the loaded fields.
GroupDictValid(d) ==
    /\ d.status \in GroupStatusValues
    /\ GroupPostInitValid(d)

\* ExecutionGroup.from_dict, with the normalisation of __post_init__.
GroupFromDict(d) ==
    [group_id |-> d.group_id, task_ids |-> d.task_ids, parallel |-> d.parallel,
     agent_type |-> d.agent_type, sandbox |-> d.sandbox,
     bootstrap_stage |-> d.bootstrap_stage, phase |-> d.phase, stage |-> d.stage,
     depends_on |-> [i \in 1..Len(d.depends_on) |-> Strip(d.depends_on[i])],
     estimated_duration |-> FromJsonOpt(d.estimated_duration),
     context_refs |-> Range(d.context_refs),
     status |-> d.status,
     started_at |-> FromJsonOpt(d.started_at), completed_at |-> FromJsonOpt(d.completed_at)]

\* SessionIndexEntry.to_dict / from_dict
EntryToDict(e) == [e EXCEPT !.updated_at = JsonOpt(@)]
EntryFromDict(d) == [d EXCEPT !.updated_at = FromJsonOpt(@)]

\* ExecutionPlan.to_dict / SessionIndex.to_dict
ToDict(kind, value) ==
    IF kind = "plan"
    THEN [kind |-> kind, items |-> [i \in 1..Len(value.groups) |-> GroupToDict(value.groups[i])]]
    ELSE [kind |-> kind, items |-> [i \in 1..Len(value) |-> EntryToDict(value[i])]]

\* ExecutionPlan.from_dict (ValueError on an invalid group or a duplicate
\* group id) / SessionIndex.from_dict
FromDict(payload) ==
    IF payload.kind = "plan"
    THEN IF /\ \A i \in 1..Len(payload.items) : GroupDictValid(payload.items[i])
            /\ \A i, k \in 1..Len(payload.items) :
                  i # k => payload.items[i].group_id # payload.items[k].group_id
         THEN [status |-> "ok",
               value |-> ExecutionPlan([i \in 1..Len(payload.items) |->
                                            GroupFromDict(payload.items[i])])]
         ELSE [status |-> "ValueError", value |-> <<>>]
    ELSE [status |-> "ok",
          value |-> [i \in 1..Len(payload.items) |-> EntryFromDict(payload.items[i])]]

\* A file holding the complete rendering of a payload.
CompleteFile(payload) == [exists |-> TRUE, payload |-> payload, chunks |-> NChunks]

\* ExecutionPlan() / SessionIndex(): the empty default object.
EmptyDefault(kind) ==
    [status |-> "ok", value |-> IF kind = "plan" THEN ExecutionPlan(<<>>) ELSE <<>>]

\* _load_execution_plan_from_path / _load_session_index_from_path: a missing
\* file loads as the empty document; a truncated one (JSONDecodeError) and
\* one that holds no JSON object raise ValueError.
LoadFromPath(f, kind) ==
    IF ~f.exists THEN EmptyDefault(kind)
    ELSE IF f.chunks < NChunks THEN [status |-> "ValueError", value |-> <<>>]
    ELSE IF f.payload.kind = "array" THEN [status |-> "ValueError", value |-> <<>>]
    ELSE FromDict(f.payload)

\* The plans and the indexes that are saved.
WavePlan == FreshPlan({}, 1, TwoGroupWave, "asc")
PlanDocs ==
    {ExecutionPlan(<<>>), StalePlan, WavePlan, UpdatePlanStatus(WavePlan, "g1", "completed", 2)}
OneEntry == UpdateSessionIndex(<<>>, "s1", "T1", "completed", "g1", "worker", 1)
IndexDocs ==
    {<<>>, OneEntry, UpdateSessionIndex(OneEntry, "s2", "T2", "failed", "g2", "worker", 2),
     UpdateSessionIndex(OneEntry, "s1", "T1", "failed", "g1", "worker", 3)}
DocsOf(kind) == IF kind = "plan" THEN PlanDocs ELSE IndexDocs

InitPersist ==
    /\ NoProcesses
    /\ snapshot = <<>>
    /\ target = 1
    /\ completed = {}
    /\ plan = NoPlan
    /\ calls = "init"
    /\ maxStage = 0
    /\ stageDrop = FALSE
    /\ dispatched = {}
    /\ index = <<>>
    /\ result = NoResult
    /\ clock = 0
    /\ \E kind \in {"plan", "index"} :
          /\ file \in {NoFile} \cup {CompleteFile(ToDict(kind, d)) : d \in DocsOf(kind)}
          /\ \E d \in DocsOf(kind) : doc = [kind |-> kind, value |-> d, prior |-> file]
    /\ tmp = NoFile
    /\ wpc = "idle"
    /\ got = NoLoad
    /\ NoQuery

\* Mutant: the chunk goes straight into the destination file.
ChunkInPlace(f, t) ==
    [file |-> [t EXCEPT !.chunks = @ + 1], tmp |-> [t EXCEPT !.chunks = @ + 1]]

\* One write into the open temporary file; the destination is not touched.
ChunkToTemp(f, t) == [file |-> f, tmp |-> [t EXCEPT !.chunks = @ + 1]]

\* tempfile.mkstemp in the directory of the destination.
Mkstemp ==
    /\ wpc = "idle"
    /\ tmp' = [exists |-> TRUE, payload |-> ToDict(doc.kind, doc.value), chunks |-> 0]
    /\ wpc' = "open"
    /\ UNCHANGED <<doc, file, got, planVars, signalVars, lockVars, loaded, disk, statusVars>>

\* json.dump / handle.write into the temporary file.
WriteChunk ==
    /\ wpc = "open"
    /\ tmp.chunks < NChunks
    /\ file' = ChunkToTemp(file, tmp).file
    /\ tmp' = ChunkToTemp(file, tmp).tmp
    /\ UNCHANGED <<doc, wpc, got, planVars, signalVars, lockVars, loaded, disk, statusVars>>

\* os.replace(temp_path, target)
Replace ==
    /\ wpc = "open"
    /\ tmp.chunks = NChunks
    /\ file' = tmp
    /\ tmp' = NoFile
    /\ wpc' = "done"
    /\ UNCHANGED <<doc, got, planVars, signalVars, lockVars, loaded, disk, statusVars>>

\* mkstemp, a write or the rename raises: the temporary file is unlinked
\* and the exception propagates.
WriteRaises ==
    /\ wpc \in {"idle", "open"}
    /\ tmp' = NoFile
    /\ wpc' = "raised"
    /\ UNCHANGED <<doc, file, got, planVars, signalVars, lockVars, loaded, disk, statusVars>>

\* The writing process is killed before the rename; its temporary file stays.
WriteKilled ==
    /\ wpc \in {"idle", "open"}
    /\ wpc' = "killed"
    /\ UNCHANGED <<doc, file, tmp, got, planVars, signalVars, lockVars, loaded, disk, statusVars>>

\* A reader loads the destination.
Read ==
    /\ got' = LoadFromPath(file, doc.kind)
    /\ UNCHANGED <<doc, file, tmp, wpc, planVars, signalVars, lockVars, loaded, disk, statusVars>>

NextPersist == Mkstemp \/ WriteChunk \/ Replace \/ WriteRaises \/ WriteKilled \/ Read

SpecPersist == InitPersist /\ [][NextPersist]_vars


----------------------------------------------------------------------------
(* SpecStatus: BacklogBridge.get_group_status applied to a persisted plan  *)
(* and a session index.  The plan is drawn from a family of persisted      *)
(* plans, the index grows entry by entry, and a query evaluates one group. *)

MaxEntries == 2

_COMPLETED_STATUSES == {"completed", "complete", "done", "success", "succeeded"}
_FAILED_STATUSES == {"failed", "error", "halted"}
_RUNNING_STATUSES == {"running", "in_progress", "in progress", "active"}
_PENDING_STATUSES == {"pending", "queued", "waiting", "new", "scheduled"}

\* value.strip().lower() on the status strings of the model.
StripLower(value) == IF value = "Done " THEN "done" ELSE value

\* _normalize_session_status: a string of none of the four sets is "running".
NormalizeSessionStatus(value) ==
    LET normalized == StripLower(value)
    IN CASE normalized \in _COMPLETED_STATUSES -> "completed"
         [] normalized \in _FAILED_STATUSES -> "failed"
         [] normalized \in _RUNNING_STATUSES -> "running"
         [] normalized \in _PENDING_STATUSES -> "pending"
         [] OTHER -> "running"

\* The entries of the index whose group_id is gid, in index order.
EntriesOfGroup(entries, gid) ==
    SelectSeq(entries, LAMBDA e : e.group_id = gid)

\* _collect_session_statuses: a dict from task id to state.  It starts with
\* "pending" for every task of the group; every entry of the group then
\* sets the state of its task_id, a later entry overwriting an earlier one,
\* whether or not that task_id is a task of the group.
CollectSessionStatuses(group, entries) ==
    LET own == EntriesOfGroup(entries, group.group_id)
        keys == Range(group.task_ids) \cup {own[i].task_id : i \in 1..Len(own)}
    IN [tid \in keys |->
           IF \E i \in 1..Len(own) : own[i].task_id = tid
           THEN LET last == CHOOSE i \in 1..Len(own) :
                                /\ own[i].task_id = tid
                                /\ \A k \in (i+1)..Len(own) : own[k].task_id # tid
                IN NormalizeSessionStatus(own[last].status)
           ELSE "pending"]

\* Mutant: a dependency group without tasks counts as done.
DepAllDoneEmptyOk(dep_group, entries) ==
    LET dep_statuses == CollectSessionStatuses(dep_group, EntriesOfGroup(entries, dep_group.group_id))
    IN \A tid \in DOMAIN dep_statuses : dep_statuses[tid] = "completed"

\* all_done of _compute_blocking_tasks for a dependency group of the plan.
DepAllDone(dep_group, entries) ==
    LET dep_statuses == CollectSessionStatuses(dep_group, EntriesOfGroup(entries, dep_group.group_id))
    IN IF dep_group.task_ids # <<>>
       THEN \A tid \in DOMAIN dep_statuses : dep_statuses[tid] = "completed"
       ELSE dep_group.status = "completed"

\* _compute_blocking_tasks: the blocking ids, dependency by dependency: the
\* dependency id when the plan has no such group, the tasks of the
\* dependency group (or its id when it has none) when it is not all done.
RECURSIVE BlockingOf(_, _, _)
BlockingOf(deps, plan_groups, entries) ==
    IF deps = <<>> THEN <<>>
    ELSE LET dep_id == Strip(Head(deps))
             rest == BlockingOf(Tail(deps), plan_groups, entries)
             k == GroupIndex(plan_groups, dep_id)
         IN IF dep_id = "" THEN rest
            ELSE IF k = 0 THEN <<dep_id>> \o rest
            ELSE IF DepAllDone(plan_groups[k], entries) THEN rest
            ELSE (IF plan_groups[k].task_ids # <<>> THEN plan_groups[k].task_ids
                  ELSE <<dep_id>>) \o rest

\* normalized_deps of _compute_blocking_tasks.
NormalizedDeps(deps) ==
    LET stripped == [i \in 1..Len(deps) |-> Strip(deps[i])]
    IN SelectSeq(stripped, LAMBDA d : d # "")

\* The task ids of a dict of states that are in the given state, sorted.
TasksIn(statuses, state) ==
    SetToSeq({tid \in DOMAIN statuses : statuses[tid] = state})

Reason(text, n, total, deps) == [text |-> text, n |-> n, total |-> total, deps |-> deps]

\* Mutant: the rule for running or completed tasks comes before the rule
\* for failed tasks.
OwnStatusRunningFirst(statuses, total_tasks, plan_status) ==
    LET failed == TasksIn(statuses, "failed")
        done == TasksIn(statuses, "completed")
        running == TasksIn(statuses, "running")
    IN IF total_tasks = 0
       THEN (IF plan_status = "running"
             THEN [status |-> "running", reason |-> Reason("task(s) scheduled", total_tasks, 0, <<>>)]
             ELSE [status |-> "pending", reason |-> Reason("no tasks scheduled", 0, 0, <<>>)])
       ELSE IF Len(done) = total_tasks
       THEN [status |-> "completed", reason |-> Reason("all task(s) completed", total_tasks, 0, <<>>)]
       ELSE IF running # <<>> \/ done # <<>>
       THEN [status |-> "running",
             reason |-> Reason("of task(s) in progress", Len(running) + Len(done), total_tasks, <<>>)]
       ELSE IF failed # <<>>
       THEN [status |-> "failed", reason |-> Reason("task(s) failed", Len(failed), 0, <<>>)]
       ELSE IF plan_status = "running"
       THEN [status |-> "running", reason |-> Reason("task(s) scheduled", total_tasks, 0, <<>>)]
       ELSE [status |-> "pending", reason |-> Reason("no sessions started", 0, 0, <<>>)]

\* The if/elif chain of get_group_status for a group that is not blocked.
OwnStatus(statuses, total_tasks, plan_status) ==
    LET failed == TasksIn(statuses, "failed")
        done == TasksIn(statuses, "completed")
        running == TasksIn(statuses, "running")
    IN IF failed # <<>>
       THEN [status |-> "failed", reason |-> Reason("task(s) failed", Len(failed), 0, <<>>)]
       ELSE IF total_tasks = 0
       THEN (IF plan_status = "running"
             THEN [status |-> "running", reason |-> Reason("task(s) scheduled", total_tasks, 0, <<>>)]
             ELSE [status |-> "pending", reason |-> Reason("no tasks scheduled", 0, 0, <<>>)])
       ELSE IF Len(done) = total_tasks
       THEN [status |-> "completed", reason |-> Reason("all task(s) completed", total_tasks, 0, <<>>)]
       ELSE IF running # <<>> \/ done # <<>>
       THEN [status |-> "running",
             reason |-> Reason("of task(s) in progress", Len(running) + Len(done), total_tasks, <<>>)]
       ELSE IF plan_status = "running"
       THEN [status |-> "running", reason |-> Reason("task(s) scheduled", total_tasks, 0, <<>>)]
       ELSE [status |-> "pending", reason |-> Reason("no sessions started", 0, 0, <<>>)]

\* get_group_status: BacklogBridgeError for an unknown group, BLOCKED when
\* a dependency blocks, else the group's own status.
GetGroupStatus(group_id, session_state, plan_state) ==
    LET gid == Strip(group_id)
        k == GroupIndex(plan_state.groups, gid)
    IN IF gid = "" \/ k = 0
       THEN [asked |-> group_id, status |-> "BacklogBridgeError"]
       ELSE LET group == plan_state.groups[k]
                blocking_tasks == BlockingOf(group.depends_on, plan_state.groups, session_state)
                normalized_deps == NormalizedDeps(group.depends_on)
                statuses == CollectSessionStatuses(group, session_state)
                own == OwnStatus(statuses, Len(group.task_ids), group.status)
            IN IF blocking_tasks # <<>>
               THEN [asked |-> group_id, status |-> "blocked",
                     reason |-> Reason("waiting on dependency group(s)", 0, 0,
                                       SetToSeq(Range(normalized_deps))),
                     pending_tasks |-> <<>>, running_tasks |-> <<>>,
                     completed_tasks |-> <<>>, failed_tasks |-> <<>>,
                     blocking_tasks |-> blocking_tasks, depends_on |-> normalized_deps]
               ELSE [asked |-> group_id, status |-> own.status, reason |-> own.reason,
                     pending_tasks |-> TasksIn(statuses, "pending"),
                     running_tasks |-> TasksIn(statuses, "running"),
                     completed_tasks |-> TasksIn(statuses, "completed"),
                     failed_tasks |-> TasksIn(statuses, "failed"),
                     blocking_tasks |-> <<>>, depends_on |-> normalized_deps]

\* A persisted ExecutionGroup.
PlanGroup(group_id, task_ids, depends_on, status) ==
    [group_id |-> group_id, task_ids |-> task_ids, parallel |-> Len(task_ids) > 1,
     agent_type |-> "default", sandbox |-> "read-only", bootstrap_stage |-> 1, phase |-> 1,
     stage |-> 1, depends_on |-> depends_on, estimated_duration |-> 0, context_refs |-> {},
     status |-> status, started_at |-> 0, completed_at |-> 0]

\* The persisted plans: g2 = {T3} depends on g1 = {T1, T2}; g2 depends on
\* g3, a group without tasks; g2 depends on zz, which the plan does not hold.
StatusPlans ==
    {ExecutionPlan(<<PlanGroup("g1", <<"T1", "T2">>, <<>>, s1),
                     PlanGroup("g2", <<"T3">>, <<"g1">>, s2)>>) :
        s1 \in {"pending", "running"}, s2 \in {"pending", "running"}}
    \cup {ExecutionPlan(<<PlanGroup("g3", <<>>, <<>>, s3),
                          PlanGroup("g2", <<"T3">>, <<"g3">>, "pending")>>) :
             s3 \in {"pending", "running", "completed"}}
    \cup {ExecutionPlan(<<PlanGroup("g2", <<"T3">>, <<"zz">>, "pending")>>)}

\* What a session entry can report: a task under a group id (T3 under g1 is
\* a task that is not one of g1's), with a status string.
EntryChoices ==
    {<<"T1", "g1">>, <<"T2", "g1">>, <<"T3", "g1">>, <<"T3", "g2">>}
SessionStatuses == {"completed", "Done ", "failed", "running", "queued", "weird"}
AskedGroups == {"g1", "g2", "g3", "zz"}

InitStatus ==
    /\ NoProcesses
    /\ NoWrite
    /\ NoQuery
    /\ plan \in StatusPlans
    /\ index = <<>>
    /\ result = NoResult
    /\ clock = 0
    /\ snapshot = <<>>
    /\ target = 1
    /\ completed = {}
    /\ calls = "init"
    /\ maxStage = 0
    /\ stageDrop = FALSE
    /\ dispatched = {}

\* A session reports: one more entry in the index.  The summary of an
\* earlier query no longer describes the index.
RecordSession ==
    /\ Len(index) < MaxEntries
    /\ \E e \in EntryChoices, st \in SessionStatuses :
          index' = Append(index,
                       SessionIndexEntry(SessionOf(Len(index) + 1), e[1], 0, 0, st, e[2], "worker"))
    /\ summary' = NoSummary
    /\ UNCHANGED <<planVars, result, clock, lockVars, loaded, disk, fileVars, made, unified>>

\* get_group_status for one group id.
QueryGroupStatus ==
    /\ \E gid \in AskedGroups : summary' = GetGroupStatus(gid, index, plan)
    /\ UNCHANGED <<planVars, signalVars, lockVars, loaded, disk, fileVars, made, unified>>

NextStatus == RecordSession \/ QueryGroupStatus

SpecStatus == InitStatus /\ [][NextStatus]_vars


----------------------------------------------------------------------------
(* SpecModels: where ExecutionGroup and ExecutionPlan objects come from:   *)
(* the constructors, ExecutionPlan.from_dict, build_next_plan and          *)
(* _update_plan_status.  Each step makes one object, or raises.            *)

MaxDeps == 2
MaxGroups == 2

\* Mutant: __post_init__ accepts a plan whose first group id comes again.
PlanPostInitValidTail(groups) ==
    Len(groups) <= 1 \/
        Len(groups) - 1 = Cardinality({groups[i].group_id : i \in 2..Len(groups)})

\* ExecutionPlan.__post_init__ does not raise: len(group_ids) == len(set(group_ids)).
PlanPostInitValid(groups) ==
    Len(groups) = Cardinality({groups[i].group_id : i \in 1..Len(groups)})

\* ExecutionGroup(...): ValueError from __post_init__, else the group with
\* its dependencies stripped.
NewExecutionGroup(fields) ==
    IF GroupPostInitValid(fields)
    THEN [call |-> "ExecutionGroup", args |-> <<fields>>, status |-> "ok",
          value |-> [fields EXCEPT
                        !.depends_on = [i \in 1..Len(fields.depends_on) |->
                                            Strip(fields.depends_on[i])]]]
    ELSE [call |-> "ExecutionGroup", args |-> <<fields>>, status |-> "ValueError"]

\* ExecutionPlan(groups=...)
NewExecutionPlan(groups) ==
    IF PlanPostInitValid(groups)
    THEN [call |-> "ExecutionPlan", args |-> groups, status |-> "ok",
          value |-> ExecutionPlan(groups)]
    ELSE [call |-> "ExecutionPlan", args |-> groups, status |-> "ValueError"]

\* The arguments of the model: group ids, dependency tuples (padded, empty,
\* repeated and self-referring ones included), sequences of groups.
GroupIdChoices == {"g1", "g2", "g3"}
DepChoices == {"", "g1", "g1 ", "g2", "g3"}
DepSeqs == UNION {[1..n -> DepChoices] : n \in 0..MaxDeps}
PlanMembers ==
    {g \in {PlanGroup(gid, <<"T1">>, deps, "pending") :
               gid \in GroupIdChoices, deps \in {<<>>, <<"g1">>}} : GroupPostInitValid(g)}
PlanArgs == UNION {[1..n -> PlanMembers] : n \in 0..MaxGroups}
RawGroups ==
    {PlanGroup(gid, <<"T1">>, deps, "pending") :
        gid \in {"g1", "g2"}, deps \in {<<>>, <<"g1">>, <<"g1 ">>, <<"g2", "g2">>}}
RawPlans == UNION {[1..n -> RawGroups] : n \in 0..MaxGroups}

InitModels ==
    /\ NoProcesses
    /\ NoWrite
    /\ NoQuery
    /\ plan = NoPlan
    /\ index = <<>>
    /\ result = NoResult
    /\ clock = 0
    /\ snapshot = <<>>
    /\ target = 1
    /\ completed = {}
    /\ calls = "init"
    /\ maxStage = 0
    /\ stageDrop = FALSE
    /\ dispatched = {}

\* ExecutionGroup(group_id=..., depends_on=...)
ConstructGroup ==
    /\ \E gid \in GroupIdChoices, deps \in DepSeqs :
          made' = NewExecutionGroup(PlanGroup(gid, <<"T1">>, deps, "pending"))
    /\ UNCHANGED <<planVars, signalVars, lockVars, loaded, disk, fileVars, summary, unified>>

\* ExecutionPlan(groups=[...]) of groups that exist.
ConstructPlan ==
    /\ \E groups \in PlanArgs : made' = NewExecutionPlan(groups)
    /\ UNCHANGED <<planVars, signalVars, lockVars, loaded, disk, fileVars, summary, unified>>

\* ExecutionPlan.from_dict of a document found on disk.
LoadPlan ==
    /\ \E raw \in RawPlans :
          LET payload == ToDict("plan", ExecutionPlan(raw))
              got_plan == FromDict(payload)
          IN made' = IF got_plan.status = "ok"
                     THEN [call |-> "from_dict", args |-> payload.items, status |-> "ok",
                           value |-> got_plan.value]
                     ELSE [call |-> "from_dict", args |-> payload.items, status |-> got_plan.status]
    /\ UNCHANGED <<planVars, signalVars, lockVars, loaded, disk, fileVars, summary, unified>>

\* build_next_plan without a current plan: a plan, or None.
BuildPlan ==
    /\ \E snap \in SignalSnapshots, done \in SUBSET {"g1", "g2"}, order \in IterOrders :
          LET next_plan == BuildNextPlan(NoPlan, done, 1, snap, order)
          IN made' = IF next_plan.exists
                     THEN [call |-> "build_next_plan", args |-> <<>>, status |-> "ok",
                           value |-> next_plan]
                     ELSE [call |-> "build_next_plan", args |-> <<>>, status |-> "None"]
    /\ UNCHANGED <<planVars, signalVars, lockVars, loaded, disk, fileVars, summary, unified>>

\* _update_plan_status rewrites the plan that was made.
RewritePlan ==
    /\ made.status = "ok"
    /\ made.call \in {"ExecutionPlan", "from_dict", "build_next_plan"}
    /\ \E gid \in GroupIdChoices, st \in {"completed", "failed"} :
          made' = [call |-> "_update_plan_status", args |-> <<>>, status |-> "ok",
                   value |-> UpdatePlanStatus(made.value, gid, st, 1)]
    /\ UNCHANGED <<planVars, signalVars, lockVars, loaded, disk, fileVars, summary, unified>>

NextModels == ConstructGroup \/ ConstructPlan \/ LoadPlan \/ BuildPlan \/ RewritePlan

SpecModels == InitModels /\ [][NextModels]_vars


----------------------------------------------------------------------------
(* SpecLoad: load_execution_plan and load_session_index over what the      *)
(* state directory can hold: the unified document (absent, truncated,      *)
(* without or with an orchestration section) and the standalone file.      *)

\* load_unified_state: {} for a missing file, ValueError for malformed JSON.
LoadUnifiedState(u) ==
    IF ~u.exists THEN [status |-> "ok", section |-> "absent", payload |-> <<>>]
    ELSE IF u.chunks < NChunks THEN [status |-> "ValueError", section |-> "absent", payload |-> <<>>]
    ELSE [status |-> "ok", section |-> u.section, payload |-> u.payload]

\* Mutant: the standalone file is preferred to the unified document.
LoadDefaultLegacyFirst(u, f, kind) ==
    LET state == LoadUnifiedState(u)
    IN IF f.exists THEN LoadFromPath(f, kind)
       ELSE IF state.status = "ok" /\ state.section = "dict" THEN FromDict(state.payload)
       ELSE EmptyDefault(kind)

\* load_execution_plan(None) / load_session_index(None): a ValueError of
\* load_unified_state is caught and the state taken as {}; a section that
\* is a dict is returned through from_dict; else the legacy file if it
\* exists; else the empty default.
LoadDefault(u, f, kind) ==
    LET state == LoadUnifiedState(u)
    IN IF state.status = "ok" /\ state.section = "dict" THEN FromDict(state.payload)
       ELSE IF f.exists THEN LoadFromPath(f, kind)
       ELSE EmptyDefault(kind)

\* A plan document whose two groups carry the same id.
RepeatedIdPayload ==
    ToDict("plan", ExecutionPlan(<<PlanGroup("g1", <<"T1">>, <<>>, "pending"),
                                   PlanGroup("g1", <<"T2">>, <<>>, "pending")>>))

\* The JSON documents a file can hold: saved plans or indexes, a plan with
\* a repeated group id, a JSON array.
LoadPayloads(kind) ==
    {ToDict(kind, d) : d \in DocsOf(kind)}
    \cup (IF kind = "plan" THEN {RepeatedIdPayload} ELSE {})
ArrayPayload == [kind |-> "array", items |-> <<>>]

InitLoad ==
    /\ NoProcesses
    /\ summary = NoSummary
    /\ made = NoMade
    /\ plan = NoPlan
    /\ index = <<>>
    /\ result = NoResult
    /\ clock = 0
    /\ snapshot = <<>>
    /\ target = 1
    /\ completed = {}
    /\ calls = "init"
    /\ maxStage = 0
    /\ stageDrop = FALSE
    /\ dispatched = {}
    /\ tmp = NoFile
    /\ wpc = "idle"
    /\ got = NoLoad
    /\ \E kind \in {"plan", "index"} :
          /\ doc = [kind |-> kind]
          /\ file \in {NoFile}
                 \cup {[exists |-> TRUE, payload |-> p, chunks |-> c] :
                          p \in LoadPayloads(kind) \cup {ArrayPayload}, c \in 1..NChunks}
          /\ unified \in {NoUnified}
                 \cup {[exists |-> TRUE, chunks |-> c, section |-> "absent", payload |-> <<>>] :
                          c \in 1..NChunks}
                 \cup {[exists |-> TRUE, chunks |-> NChunks, section |-> "notdict", payload |-> <<>>]}
                 \cup {[exists |-> TRUE, chunks |-> NChunks, section |-> "dict", payload |-> p] :
                          p \in LoadPayloads(kind)}

\* load_execution_plan() / load_session_index() without a path.
LoadWithoutPath ==
    /\ got' = [path |-> "None", load |-> LoadDefault(unified, file, doc.kind)]
    /\ UNCHANGED <<doc, file, tmp, wpc, planVars, signalVars, lockVars, loaded, disk, statusVars>>

\* load_execution_plan(path) / load_session_index(path), as the entrypoint
\* calls them.
LoadWithPath ==
    /\ got' = [path |-> "given", load |-> LoadFromPath(file, doc.kind)]
    /\ UNCHANGED <<doc, file, tmp, wpc, planVars, signalVars, lockVars, loaded, disk, statusVars>>

NextLoad == LoadWithoutPath \/ LoadWithPath

SpecLoad == InitLoad /\ [][NextLoad]_vars


----------------------------------------------------------------------------
(* The hooks' shared state: hooks/shared_state.py and                      *)
(* hooks/post_tool_use.py.  A SessionsState is modelled by the fields the  *)
(* hook reads and writes: current_task (its name), active_protocol, api    *)
(* (todos_clear), mode, todos and flags (subagent, subagent_session_id,    *)
(* noob).  Enum members are written as their values, None as "None".       *)

CCTodo(content, status, activeForm) ==
    [content |-> content, status |-> status, activeForm |-> activeForm]

\* SessionsState(): the dataclass defaults.
DefaultState ==
    [current_task |-> [name |-> "None"],
     active_protocol |-> "None",
     api |-> [todos_clear |-> FALSE],
     mode |-> "discussion",
     todos |-> [active |-> <<>>, stashed |-> <<>>],
     flags |-> [subagent |-> FALSE, subagent_session_id |-> "None", noob |-> TRUE]]

\* SessionsState.to_dict: asdict(self) with the enums replaced by their values.
StateToDict(st) ==
    [current_task |-> [name |-> st.current_task.name],
     active_protocol |-> st.active_protocol,
     api |-> [todos_clear |-> st.api.todos_clear],
     mode |-> st.mode,
     todos |-> [active |-> [i \in 1..Len(st.todos.active) |->
                              [content |-> st.todos.active[i].content,
                               status |-> st.todos.active[i].status,
                               activeForm |-> st.todos.active[i].activeForm]],
                stashed |-> [i \in 1..Len(st.todos.stashed) |->
                              [content |-> st.todos.stashed[i].content,
                               status |-> st.todos.stashed[i].status,
                               activeForm |-> st.todos.stashed[i].activeForm]]],
     flags |-> [subagent |-> st.flags.subagent,
                subagent_session_id |-> st.flags.subagent_session_id,
                noob |-> st.flags.noob]]

\* SessionsState._coerce_todo: CCTodo(content=..., status=...).
CoerceTodo(x) == CCTodo(x.content, x.status, "None")

\* SessionsState.from_dict: SessionsFlags is built from context_85,
\* context_90, subagent and bypass_mode only, so subagent_session_id and
\* noob take their defaults.
StateFromDict(d) ==
    [current_task |-> [name |-> d.current_task.name],
     active_protocol |-> d.active_protocol,
     api |-> [todos_clear |-> d.api.todos_clear],
     mode |-> IF d.mode = "implementation" THEN "orchestration" ELSE d.mode,
     todos |-> [active |-> [i \in 1..Len(d.todos.active) |-> CoerceTodo(d.todos.active[i])],
                stashed |-> [i \in 1..Len(d.todos.stashed) |-> CoerceTodo(d.todos.stashed[i])]],
     flags |-> [subagent |-> d.flags.subagent,
                subagent_session_id |-> "None",
                noob |-> TRUE]]

\* SessionsFlags.set_subagent
SetSubagent(st, session_id) ==
    [st EXCEPT !.flags.subagent = TRUE, !.flags.subagent_session_id = session_id]

\* SessionsFlags.is_subagent_stale
IsSubagentStale(st, current_session_id) ==
    IF ~st.flags.subagent THEN FALSE
    ELSE IF st.flags.subagent_session_id = "None" THEN TRUE
    ELSE IF current_session_id = "None" THEN TRUE
    ELSE st.flags.subagent_session_id # current_session_id

\* SessionsTodos.all_complete
AllComplete(todos) ==
    /\ todos.active # <<>>
    /\ \A i \in 1..Len(todos.active) : todos.active[i].status = "completed"

\* SessionsTodos.restore_stashed: the todos after the call.
RestoreStashed(todos) ==
    IF todos.stashed = <<>> THEN todos
    ELSE IF todos.active # <<>> /\ ~AllComplete(todos) THEN todos
    ELSE [active |-> todos.stashed, stashed |-> <<>>]

\* The state file as _the_ol_in_out leaves it.
StateFile(payload) == [exists |-> TRUE, payload |-> payload, chunks |-> NChunks]

\* load_state: what it returns.  A missing file and one that is not JSON
\* give a fresh SessionsState().
LoadStateValue(f) ==
    IF ~f.exists \/ f.chunks < NChunks THEN DefaultState ELSE StateFromDict(f.payload)

\* load_state: the state file when it has returned.  The fresh state is
\* written in place of a missing or corrupt file.
LoadStateFile(f) ==
    IF ~f.exists \/ f.chunks < NChunks THEN StateFile(StateToDict(DefaultState)) ELSE f

\* The bodies of the with edit_state() blocks: what each does to s.
Body(op) == [op |-> op, id |-> "None"]

ApplyBody(b, st) ==
    CASE b.op = "clear_subagent" -> [st EXCEPT !.flags.subagent = FALSE]
      [] b.op = "complete" ->
           [st EXCEPT !.mode = "discussion", !.active_protocol = "None",
                      !.current_task.name = "None", !.todos.active = <<>>]
      [] b.op = "clear_protocol" -> [st EXCEPT !.active_protocol = "None"]
      [] b.op = "restore" ->
           [st EXCEPT !.todos = RestoreStashed(st.todos), !.api.todos_clear = TRUE]
      [] b.op = "finish" -> [st EXCEPT !.todos.active = <<>>, !.mode = "discussion"]
      [] b.op = "close_window" -> [st EXCEPT !.api.todos_clear = FALSE]
      [] OTHER -> SetSubagent(st, b.id)

\* with edit_state() as s: <body b>; STATE = s -- alone, with no contender:
\* s is loaded, the body changes it, and it is written.
EditStateRun(f, b) ==
    LET st == ApplyBody(b, LoadStateValue(f))
    IN [file |-> StateFile(StateToDict(st)), STATE_ |-> st]

\* The "Todo completion" section of post_tool_use.py, entered with STATE
\* and the state file; exits is whether it ended in sys.exit(0).
TodoCompletion(r, tool_name) ==
    IF ~(r.STATE_.mode = "orchestration" /\ tool_name = "TodoWrite" /\ AllComplete(r.STATE_.todos))
    THEN [file |-> r.file, STATE_ |-> r.STATE_, exits |-> FALSE]
    ELSE IF r.STATE_.active_protocol = "task-completion"
    THEN LET e == EditStateRun(r.file, Body("complete"))
         IN [file |-> e.file, STATE_ |-> e.STATE_, exits |-> TRUE]
    ELSE LET a == IF r.STATE_.active_protocol # "None"
                  THEN EditStateRun(r.file, Body("clear_protocol"))
                  ELSE [file |-> r.file, STATE_ |-> r.STATE_]
             b == IF a.STATE_.todos.stashed # <<>>
                  THEN EditStateRun(a.file, Body("restore"))
                  ELSE EditStateRun(a.file, Body("finish"))
         IN [file |-> b.file, STATE_ |-> b.STATE_, exits |-> FALSE]

\* The "Disable windowed API permissions" section: env_command is the
\* command found in the environment variable __TOOL_INPUT__.
DisableWindowed(r, tool_name, env_command) ==
    IF r.STATE_.api.todos_clear /\ tool_name = "Bash"
    THEN (IF env_command # "todos clear"
          THEN EditStateRun(r.file, Body("close_window"))
          ELSE [file |-> r.file, STATE_ |-> r.STATE_])
    ELSE IF r.STATE_.api.todos_clear
    THEN EditStateRun(r.file, Body("close_window"))
    ELSE [file |-> r.file, STATE_ |-> r.STATE_]

\* One run of post_tool_use.py outside CI, for a tool whose input names no
\* task file: STATE = load_state(), the subagent cleanup, the todo
\* completion and the closing of the windowed permission.
PostToolUseRun(f, tool_name, env_command) ==
    LET r0 == [file |-> LoadStateFile(f), STATE_ |-> LoadStateValue(f)]
    IN IF tool_name = "Task" /\ r0.STATE_.flags.subagent
       THEN EditStateRun(r0.file, Body("clear_subagent"))
       ELSE LET r1 == TodoCompletion(r0, tool_name)
            IN IF r1.exits THEN [file |-> r1.file, STATE_ |-> r1.STATE_]
               ELSE DisableWindowed(r1, tool_name, env_command)


\* SpecHook: one process runs hooks one after the other on a state file that
\* an earlier edit_state wrote from the state it had in memory.
HookTodoLists ==
    {<<>>,
     <<CCTodo("t1", "completed", "None")>>,
     <<CCTodo("t1", "pending", "None")>>,
     <<CCTodo("t1", "completed", "Doing t1")>>}

HookFlags ==
    {[subagent |-> FALSE, subagent_session_id |-> "None", noob |-> TRUE],
     [subagent |-> FALSE, subagent_session_id |-> "None", noob |-> FALSE],
     [subagent |-> TRUE, subagent_session_id |-> "sa", noob |-> TRUE]}

StateChoices ==
    {[current_task |-> [name |-> "t"],
      active_protocol |-> a,
      api |-> [todos_clear |-> c],
      mode |-> m,
      todos |-> [active |-> x, stashed |-> y],
      flags |-> f] :
        a \in {"None", "task-completion", "task-startup"}, c \in BOOLEAN,
        m \in {"discussion", "orchestration"},
        x \in HookTodoLists, y \in {<<>>, <<CCTodo("t0", "pending", "None")>>},
        f \in HookFlags}

HookTools == {"TodoWrite", "Bash", "Task", "Read"}
HookSessionIds == {"sa", "sb"}

InitHook ==
    /\ impl = "_lock"
    /\ lock = NoLock
    /\ time = 0
    /\ pc = <<>>
    /\ deadline = <<>>
    /\ held = <<>>
    /\ created = <<>>
    /\ nested = <<>>
    /\ disk = NoDisk
    /\ \E st \in StateChoices :
          /\ loaded = [STATE_ |-> st]
          /\ file \in {StateFile(StateToDict(st)), NoFile}
    /\ tmp = NoFile
    /\ wpc = "idle"
    /\ got = NoLoad
    /\ doc = <<>>
    /\ summary = NoSummary
    /\ made = NoMade
    /\ unified = NoUnified
    /\ plan = NoPlan
    /\ index = <<>>
    /\ result = NoResult
    /\ clock = 0
    /\ snapshot = <<>>
    /\ target = 1
    /\ completed = {}
    /\ calls = "init"
    /\ maxStage = 0
    /\ stageDrop = FALSE
    /\ dispatched = {}

\* post_tool_use.py runs for one tool call.
PostToolUse ==
    /\ \E tool_name \in HookTools, env_command \in {"todos clear", "ls"} :
          LET r == PostToolUseRun(file, tool_name, env_command)
          IN /\ file' = r.file
             /\ loaded' = [STATE_ |-> r.STATE_]
             /\ made' = [call |-> "post_tool_use", status |-> tool_name]
    /\ UNCHANGED <<doc, tmp, wpc, got, summary, unified, planVars, signalVars, disk, lockVars>>

\* with edit_state() as s: s.flags.set_subagent(session_id)
SetSubagentEdit ==
    /\ \E session_id \in HookSessionIds :
          LET r == EditStateRun(file, [op |-> "set_subagent", id |-> session_id])
          IN /\ file' = r.file
             /\ loaded' = [STATE_ |-> r.STATE_]
             /\ made' = [call |-> "set_subagent", status |-> session_id]
    /\ UNCHANGED <<doc, tmp, wpc, got, summary, unified, planVars, signalVars, disk, lockVars>>

\* STATE = load_state()
LoadState ==
    /\ got' = [status |-> "loaded", value |-> LoadStateValue(file)]
    /\ file' = LoadStateFile(file)
    /\ made' = [call |-> "load_state", status |-> "none"]
    /\ UNCHANGED <<doc, tmp, wpc, loaded, summary, unified, planVars, signalVars, disk, lockVars>>

NextHook == PostToolUse \/ SetSubagentEdit \/ LoadState

SpecHook == InitHook /\ [][NextHook]_vars

\* SpecEdit: hook processes share the state file.  Each one reads it with a
\* bare load_state(), as post_tool_use.py does on start, and changes it in a
\* with edit_state() block under _lock.  No lock directory is stale in these
\* runs and no process is killed.
CorruptStateFile == [exists |-> TRUE, payload |-> <<>>, chunks |-> 1]

EditInitialFiles ==
    {NoFile, CorruptStateFile,
     StateFile(StateToDict(DefaultState)),
     StateFile(StateToDict([DefaultState EXCEPT !.mode = "orchestration"]))}

\* The bodies the contending with edit_state() blocks run.
EditBodies == {Body("finish"), Body("restore"), [op |-> "set_subagent", id |-> "sa"]}

InitEdit ==
    /\ impl = "_lock"
    /\ lock = NoLock
    /\ time = 0
    /\ pc = [p \in Procs |-> "idle"]
    /\ deadline = [p \in Procs |-> 0]
    /\ held = [p \in Procs |-> FALSE]
    /\ created = [p \in Procs |-> FALSE]
    /\ nested = [p \in Procs |-> "none"]
    /\ disk = NoDisk
    /\ loaded = [p \in Procs |-> [STATE_ |-> DefaultState, raised |-> FALSE]]
    /\ file \in EditInitialFiles
    /\ tmp = NoFile
    /\ wpc = "idle"
    /\ got = NoLoad
    /\ doc = <<>>
    /\ summary = NoSummary
    /\ made = NoMade
    /\ unified = NoUnified
    /\ plan = NoPlan
    /\ index = <<>>
    /\ result = NoResult
    /\ clock = 0
    /\ snapshot = <<>>
    /\ target = 1
    /\ completed = {}
    /\ calls = "init"
    /\ maxStage = 0
    /\ stageDrop = FALSE
    /\ dispatched = {}

\* STATE = load_state() outside any lock: STATE_FILE.exists() and the read.
HookLoadRead(p) ==
    /\ pc[p] = "idle"
    /\ IF ~file.exists
       THEN /\ pc' = [pc EXCEPT ![p] = "hook_default"]
            /\ UNCHANGED loaded
       ELSE IF file.chunks < NChunks
       THEN /\ pc' = [pc EXCEPT ![p] = "hook_backup"]
            /\ UNCHANGED loaded
       ELSE /\ pc' = [pc EXCEPT ![p] = "hook_loaded"]
            /\ loaded' = [loaded EXCEPT ![p] =
                             [STATE_ |-> StateFromDict(file.payload), raised |-> FALSE]]
    /\ UNCHANGED <<file, tmp, doc, wpc, got, statusVars, planVars, signalVars, disk, impl, lock, time, deadline, held, created, nested>>

\* The corrupt file is moved to .bad.json: whatever the state file holds by
\* now goes there.
HookLoadBackup(p) ==
    /\ pc[p] = "hook_backup"
    /\ IF file.exists
       THEN tmp' = file /\ file' = NoFile
       ELSE UNCHANGED <<file, tmp>>
    /\ pc' = [pc EXCEPT ![p] = "hook_default"]
    /\ UNCHANGED <<loaded, doc, wpc, got, statusVars, planVars, signalVars, disk, impl, lock, time, deadline, held, created, nested>>

\* _the_ol_in_out(STATE_FILE, SessionsState().to_dict()), still outside any
\* lock.
HookLoadDefault(p) ==
    /\ pc[p] = "hook_default"
    /\ file' = StateFile(StateToDict(DefaultState))
    /\ loaded' = [loaded EXCEPT ![p] = [STATE_ |-> DefaultState, raised |-> FALSE]]
    /\ pc' = [pc EXCEPT ![p] = "hook_loaded"]
    /\ UNCHANGED <<tmp, doc, wpc, got, statusVars, planVars, signalVars, disk, impl, lock, time, deadline, held, created, nested>>

\* The hook goes on to a with edit_state() block (Start).
HookLoadDone(p) ==
    /\ pc[p] = "hook_loaded"
    /\ pc' = [pc EXCEPT ![p] = "idle"]
    /\ UNCHANGED <<loaded, file, tmp, doc, wpc, got, statusVars, planVars, signalVars, disk, impl, lock, time, deadline, held, created, nested>>

\* edit_state: state = load_state(), inside with _lock(LOCK_DIR).
EditLoad(p) ==
    /\ pc[p] = "cs"
    /\ loaded' = [loaded EXCEPT ![p] = [STATE_ |-> LoadStateValue(file), raised |-> FALSE]]
    /\ IF file.exists /\ file.chunks < NChunks THEN tmp' = file ELSE UNCHANGED tmp
    /\ file' = LoadStateFile(file)
    /\ pc' = [pc EXCEPT ![p] = "loaded"]
    /\ UNCHANGED <<doc, wpc, got, statusVars, planVars, signalVars, disk, impl, lock, time, deadline, held, created, nested>>

\* The body of the with-block changes the yielded state and returns.
EditBody(p) ==
    /\ pc[p] = "loaded"
    /\ \E b \in EditBodies :
          loaded' = [loaded EXCEPT ![p].STATE_ = ApplyBody(b, loaded[p].STATE_)]
    /\ pc' = [pc EXCEPT ![p] = "mutated"]
    /\ UNCHANGED <<file, tmp, doc, wpc, got, statusVars, planVars, signalVars, disk, impl, lock, time, deadline, held, created, nested>>

\* The body raises after changing the yielded state: edit_state re-raises
\* and does not write; _lock's finally clause follows (Release).
EditBodyRaises(p) ==
    /\ pc[p] = "loaded"
    /\ \E b \in EditBodies :
          loaded' = [loaded EXCEPT ![p] = [STATE_ |-> ApplyBody(b, loaded[p].STATE_),
                                           raised |-> TRUE]]
    /\ pc' = [pc EXCEPT ![p] = "saved"]
    /\ UNCHANGED <<file, tmp, doc, wpc, got, statusVars, planVars, signalVars, disk, impl, lock, time, deadline, held, created, nested>>

\* else: _the_ol_in_out(STATE_FILE, state.to_dict())
EditWrite(p) ==
    /\ pc[p] = "mutated"
    /\ file' = StateFile(StateToDict(loaded[p].STATE_))
    /\ pc' = [pc EXCEPT ![p] = "saved"]
    /\ UNCHANGED <<loaded, tmp, doc, wpc, got, statusVars, planVars, signalVars, disk, impl, lock, time, deadline, held, created, nested>>

NextEdit ==
    \/ \E p \in Procs :
          \/ HookLoadRead(p) \/ HookLoadBackup(p) \/ HookLoadDefault(p) \/ HookLoadDone(p)
          \/ Start(p) \/ CleanupCheck(p) \/ Mkdir(p) \/ WriteInfo(p)
          \/ EditLoad(p) \/ EditBody(p) \/ EditBodyRaises(p) \/ EditWrite(p) \/ Release(p)
    \/ Tick

SpecEdit == InitEdit /\ [][NextEdit]_vars

----------------------------------------------------------------------------
(* SpecUnified: save_orchestration_state on the unified document           *)
(* sessions-state.json.  The document is a JSON object with other          *)
(* top-level keys, a metadata object with other keys, and under            *)
(* metadata.orchestration the sections session_index and execution_plan.   *)
(* One caller at a time; its steps are the acquisition of the StateLock,   *)
(* the load, the merge with the write, and the release.                    *)

\* A section that is not there, and an argument that is None.
AbsentSection == [kind |-> "absent", items |-> <<>>]
NoneArg == [kind |-> "none", items |-> <<>>]

\* metadata.orchestration and metadata when the key is missing.
AbsentOrchestration ==
    [kind |-> "absent", session_index |-> AbsentSection, execution_plan |-> AbsentSection]
AbsentMetadata == [kind |-> "absent", other |-> "absent", orchestration |-> AbsentOrchestration]

\* {} : what load_unified_state returns for a missing file.
EmptyPayload == [top |-> "absent", metadata |-> AbsentMetadata]

\* load_unified_state on the whole document: {} for a missing file,
\* ValueError for malformed JSON and for JSON that is not an object.
LoadUnifiedPayload(u) ==
    IF ~u.exists THEN [status |-> "ok", payload |-> EmptyPayload]
    ELSE IF u.chunks < NChunks \/ u.kind # "dict"
         THEN [status |-> "ValueError", payload |-> EmptyPayload]
    ELSE [status |-> "ok", payload |-> u.payload]

\* Mutant: the orchestration object is built anew from the arguments.
MergeOrchestrationAnew(payload, session_index, execution_plan) ==
    [top |-> payload.top,
     metadata |->
        [kind |-> "dict",
         other |-> IF payload.metadata.kind = "dict" THEN payload.metadata.other ELSE "absent",
         orchestration |->
            [kind |-> "dict",
             session_index |-> IF session_index.kind # "none" THEN session_index
                               ELSE AbsentSection,
             execution_plan |-> IF execution_plan.kind # "none" THEN execution_plan
                                ELSE AbsentSection]]]

\* The merge of save_orchestration_state: metadata and orchestration are
\* copied when they are objects (a missing, null or empty one is taken as
\* {}), the sections given are set, and the result is put back in payload.
MergeOrchestration(payload, session_index, execution_plan) ==
    LET metadata == IF payload.metadata.kind = "dict" THEN payload.metadata
                    ELSE [AbsentMetadata EXCEPT !.kind = "dict"]
        orchestration == IF metadata.orchestration.kind = "dict" THEN metadata.orchestration
                         ELSE [AbsentOrchestration EXCEPT !.kind = "dict"]
    IN [top |-> payload.top,
        metadata |->
           [kind |-> "dict",
            other |-> metadata.other,
            orchestration |->
               [kind |-> "dict",
                session_index |-> IF session_index.kind # "none" THEN session_index
                                  ELSE orchestration.session_index,
                execution_plan |-> IF execution_plan.kind # "none" THEN execution_plan
                                   ELSE orchestration.execution_plan]]]

\* The documents the file can hold before the first call.
SectionChoices(kind) ==
    {AbsentSection} \cup {ToDict(kind, d) : d \in IF kind = "plan" THEN {StalePlan} ELSE {OneEntry}}
OrchestrationChoices ==
    {AbsentOrchestration, [AbsentOrchestration EXCEPT !.kind = "null"]}
    \cup {[kind |-> "dict", session_index |-> a, execution_plan |-> b] :
             a \in SectionChoices("index"), b \in SectionChoices("plan")}
MetadataChoices ==
    {AbsentMetadata, [AbsentMetadata EXCEPT !.kind = "null"],
     [AbsentMetadata EXCEPT !.kind = "string"]}
    \cup {[kind |-> "dict", other |-> o, orchestration |-> r] :
             o \in {"absent", "kept"}, r \in OrchestrationChoices}
UnifiedFiles ==
    {[exists |-> FALSE, chunks |-> 0, kind |-> "dict", payload |-> EmptyPayload]}
    \cup {[exists |-> TRUE, chunks |-> c, kind |-> "dict", payload |-> EmptyPayload] :
             c \in 1..(NChunks - 1)}
    \cup {[exists |-> TRUE, chunks |-> NChunks, kind |-> "array", payload |-> EmptyPayload]}
    \cup {[exists |-> TRUE, chunks |-> NChunks, kind |-> "dict",
           payload |-> [top |-> t, metadata |-> m]] :
             t \in {"absent", "kept"}, m \in MetadataChoices}

\* The arguments of a call: each is None or a document's to_dict().
ArgChoices(kind) ==
    {NoneArg} \cup {ToDict(kind, d) : d \in IF kind = "plan" THEN {WavePlan} ELSE {<<>>, OneEntry}}

InitUnified ==
    /\ impl = "StateLock"
    /\ lock = NoLock
    /\ time = 0
    /\ pc = <<>>
    /\ deadline = <<>>
    /\ held = <<>>
    /\ created = <<>>
    /\ nested = <<>>
    /\ loaded = <<>>
    /\ disk = NoDisk
    /\ summary = NoSummary
    /\ made = NoMade
    /\ plan = NoPlan
    /\ index = <<>>
    /\ result = NoResult
    /\ clock = 0
    /\ snapshot = <<>>
    /\ target = 1
    /\ completed = {}
    /\ calls = "init"
    /\ maxStage = 0
    /\ stageDrop = FALSE
    /\ dispatched = {}
    /\ file = NoFile
    /\ tmp = NoFile
    /\ wpc = "idle"
    /\ got = NoLoad
    /\ doc = [session_index |-> NoneArg, execution_plan |-> NoneArg]
    /\ unified \in UnifiedFiles

\* save_orchestration_state is called; __enter__ creates the lock directory
\* and writes its info record.
EnterSave ==
    /\ wpc = "idle"
    /\ ~lock.exists
    /\ \E a \in ArgChoices("index"), b \in ArgChoices("plan") :
          doc' = [session_index |-> a, execution_plan |-> b]
    /\ lock' = [NoLock EXCEPT !.exists = TRUE, !.info = "ok", !.pid = 1, !.owner = 1]
    /\ wpc' = "locked"
    /\ made' = NoMade
    /\ UNCHANGED <<file, tmp, got, summary, unified, planVars, signalVars, loaded, disk,
                   impl, time, pc, deadline, held, created, nested>>

\* payload = load_unified_state(path) or {}
LoadPayload ==
    /\ wpc = "locked"
    /\ got' = LoadUnifiedPayload(unified)
    /\ wpc' = IF got'.status = "ok" THEN "loaded" ELSE "raised"
    /\ UNCHANGED <<doc, file, tmp, statusVars, planVars, signalVars, lockVars, loaded, disk>>

\* The merge and _atomic_write(path, payload); dict() of a metadata value
\* that is a string raises ValueError before anything is written.
MergeAndWrite ==
    /\ wpc = "loaded"
    /\ IF got.payload.metadata.kind = "string"
       THEN /\ wpc' = "raised"
            /\ UNCHANGED unified
       ELSE /\ wpc' = "written"
            /\ unified' = [exists |-> TRUE, chunks |-> NChunks, kind |-> "dict",
                           payload |-> MergeOrchestration(got.payload, doc.session_index,
                                                          doc.execution_plan)]
    /\ UNCHANGED <<doc, file, tmp, got, summary, made, planVars, signalVars, lockVars, loaded, disk>>

\* __exit__ releases the lock; the call returns the path or the exception
\* propagates.
ExitSave ==
    /\ wpc \in {"written", "raised"}
    /\ lock' = NoLock
    /\ made' = [call |-> "save_orchestration_state",
                status |-> IF wpc = "written" THEN "ok" ELSE "ValueError"]
    /\ wpc' = "idle"
    /\ UNCHANGED <<doc, file, tmp, got, summary, unified, planVars, signalVars, loaded, disk,
                   impl, time, pc, deadline, held, created, nested>>

NextUnified == EnterSave \/ LoadPayload \/ MergeAndWrite \/ ExitSave

SpecUnified == InitUnified /\ [][NextUnified]_vars


----------------------------------------------------------------------------
(* The planner's claims.  The readiness of a group is restated here from    *)
(* the snapshot, independently of the operators above.                      *)

Orchestrated == {i \in 1..Len(snapshot) : snapshot[i].orchestration = "ok"}
SnapGroups == {snapshot[i].stage_group_id : i \in Orchestrated}
Members(g) == {i \in Orchestrated : snapshot[i].stage_group_id = g}
FirstMember(g) == snapshot[CHOOSE i \in Members(g) : \A k \in Members(g) : i <= k]
GroupStage(g) == FirstMember(g).parallel_group
Tokens(g) == UNION {Range(snapshot[i].depends_on) : i \in Members(g)}
IsTaskToken(tok) == \E i \in Orchestrated : snapshot[i].id = tok
TokenGroup(tok) ==
    IF IsTaskToken(tok)
    THEN snapshot[CHOOSE i \in Orchestrated : snapshot[i].id = tok].stage_group_id
    ELSE tok
Resolvable(g) == \A tok \in Tokens(g) : IsTaskToken(tok) \/ tok \in SnapGroups
DepGroups(g) == {TokenGroup(tok) : tok \in {t \in Tokens(g) : IsTaskToken(t) \/ t \in SnapGroups}}
Done == {Strip(g) : g \in completed}
Ready(g) ==
    /\ FirstMember(g).bootstrap_stage = target
    /\ g \notin Done
    /\ \E i \in Members(g) : snapshot[i].task_status # "done"
    /\ Resolvable(g)
    /\ DepGroups(g) \subseteq Done
ReadySet == {g \in SnapGroups : Ready(g)}
MinReadyStage == CHOOSE m \in {GroupStage(g) : g \in ReadySet} :
                     \A g \in ReadySet : m <= GroupStage(g)

\* C3 as stated: every group of the plan returned by any call, a reused
\* current plan included, has all its resolved dependency groups in the
\* completed set.
C3_AdmissionEveryCall ==
    calls \in {"fresh", "reused"} =>
        \A g \in PlanGroupIds(plan) \cap SnapGroups : DepGroups(g) \subseteq Done

\* C3 (amended): every group of a freshly built plan has all its resolved
\* dependency groups in the completed set.
C3_AdmissionFresh ==
    calls = "fresh" =>
        \A g \in PlanGroupIds(plan) : g \in SnapGroups /\ DepGroups(g) \subseteq Done

C3_Witness ==
    /\ calls = "fresh"
    /\ \E g \in PlanGroupIds(plan) : Cardinality(DepGroups(g)) >= 1

\* C5: a freshly built plan holds exactly the ready groups of the target
\* bootstrap stage whose stage is the minimum stage among the ready groups,
\* and every group in it carries that stage value.
C5_WaveComposition ==
    calls = "fresh" =>
        /\ ReadySet # {}
        /\ PlanGroupIds(plan) = {g \in ReadySet : GroupStage(g) = MinReadyStage}
        /\ \A i \in 1..Len(plan.groups) : plan.groups[i].stage = MinReadyStage

C5_Witness ==
    /\ calls = "fresh"
    /\ Len(plan.groups) = 2
    /\ \E g \in ReadySet : GroupStage(g) > MinReadyStage

\* C6 as stated: the stage of a freshly built wave is never lower than the
\* stage of a wave built before it.
C6_AscendingStages == ~stageDrop

\* No group depends, after resolution, on a group of a higher stage.
DepsPointDown ==
    \A g \in SnapGroups : \A d \in DepGroups(g) : GroupStage(d) <= GroupStage(g)

\* C6 (amended): when no group depends on a group of a higher stage, the
\* stage of a freshly built wave is never lower than that of an earlier wave.
C6_AscendingStagesDown == DepsPointDown => ~stageDrop

C6_Witness ==
    /\ DepsPointDown
    /\ calls = "fresh"
    /\ maxStage = 2
    /\ Cardinality(dispatched) >= 2
    /\ \E g \in SnapGroups : DepGroups(g) # {}

\* C7: a call made while the current plan holds a group of the target stage
\* that is not completed leaves the plan as it was (steps that keep the
\* completed set are the planner's calls).
C7_IdempotentReentry ==
    [][(completed' = completed
        /\ \E i \in 1..Len(plan.groups) :
              /\ plan.groups[i].bootstrap_stage = target
              /\ plan.groups[i].group_id \notin Done)
       => plan' = plan]_vars

C7_Witness ==
    /\ calls = "reused"
    /\ PlanGroupIds(plan) \cap Done # {}
    /\ PlanGroupIds(plan) \ Done # {}

Sorted(groups) ==
    \A i \in 1..Len(groups) : \A j \in (i+1)..Len(groups) :
        \/ groups[i].stage < groups[j].stage
        \/ /\ groups[i].stage = groups[j].stage
           /\ IdRank(groups[i].group_id) < IdRank(groups[j].group_id)

TaskIdsSorted(group) ==
    \A i \in 1..Len(group.task_ids) : \A j \in (i+1)..Len(group.task_ids) :
        IdRank(group.task_ids[i]) < IdRank(group.task_ids[j])

\* C8: the planner's result is the same for every iteration order of the
\* dependency-token sets, and a freshly built plan lists its groups by
\* (stage, group_id) and each group's task ids in ascending order.
C8_Deterministic ==
    /\ \A o1, o2 \in IterOrders :
           BuildNextPlan(plan, completed, target, snapshot, o1)
               = BuildNextPlan(plan, completed, target, snapshot, o2)
    /\ calls = "fresh" =>
           /\ Sorted(plan.groups)
           /\ \A i \in 1..Len(plan.groups) : TaskIdsSorted(plan.groups[i])

C8_Witness ==
    /\ calls = "fresh"
    /\ \E g \in PlanGroupIds(plan) : Cardinality(Tokens(g)) = 2
    /\ \E i \in 1..Len(plan.groups) : Len(plan.groups[i].task_ids) = 2

RECURSIVE DepClosure(_, _)
DepClosure(S, n) ==
    IF n = 0 THEN S
    ELSE DepClosure(S \cup UNION {DepGroups(g) : g \in S \cap SnapGroups}, n - 1)
DepsOf(g) == DepClosure(DepGroups(g), Cardinality(SnapGroups))
Acyclic == \A g \in SnapGroups : g \notin DepsOf(g)
FullyResolvable == \A g \in SnapGroups : Resolvable(g)
HasWork(g) ==
    /\ FirstMember(g).bootstrap_stage = target
    /\ \E i \in Members(g) : snapshot[i].task_status # "done"

ScenarioAHolds ==
    snapshot = ScenarioA /\ calls = "fresh" =>
        /\ completed = {} => PlanGroupIds(plan) = {"g1"}
        /\ completed = {"g1"} => PlanGroupIds(plan) = {"g2"}

\* C9 as stated: when the planner has nothing more to return, every group
\* with work left in an acyclic, fully resolvable dependency graph has been
\* returned (or was completed from the start).
C9_EveryGroupReturned ==
    /\ ScenarioAHolds
    /\ (calls = "none" /\ Acyclic /\ FullyResolvable) =>
           \A g \in SnapGroups : HasWork(g) => g \in dispatched \cup Done

\* C9 (amended): the same, for the groups whose dependency groups are all
\* either completed or themselves groups of the target stage with work left.
C9_ReturnedWhenDepsRunnable ==
    /\ ScenarioAHolds
    /\ (calls = "none" /\ Acyclic /\ FullyResolvable) =>
           \A g \in SnapGroups :
               (HasWork(g) /\ \A d \in DepsOf(g) : d \in Done \/ HasWork(d))
                   => g \in dispatched \cup Done

C9_Witness ==
    /\ snapshot = ScenarioA
    /\ calls = "none"
    /\ dispatched = {"g1", "g2"}
    /\ completed = {"g1", "g2"}

----------------------------------------------------------------------------
(* The entrypoint's claims (SpecSignal).                                    *)

\* A dependency token of the group matches no task id and no group id of
\* the snapshot.
Unresolved(g) ==
    \E tok \in Tokens(g) :
        /\ \A i \in 1..Len(snapshot) : snapshot[i].id # Strip(tok)
        /\ Strip(tok) \notin SnapGroups

\* C30: a group with an unresolved dependency token is in no freshly built
\* wave, whatever the completed set; the call raises nothing and returns
\* the ready groups of the lowest stage, or no plan when no group is ready.
C30_UnresolvedExcluded ==
    /\ calls = "fresh" => \A g \in SnapGroups : Unresolved(g) => g \notin PlanGroupIds(plan)
    /\ calls \in {"fresh", "none"} =>
          IF ReadySet = {} THEN calls = "none" /\ plan = NoPlan
          ELSE /\ calls = "fresh"
               /\ PlanGroupIds(plan) = {g \in ReadySet : GroupStage(g) = MinReadyStage}

\* A fresh wave was built while a group of the target stage with work left
\* waits on an unresolved token.
C30_Witness ==
    /\ calls = "fresh"
    /\ plan.groups # <<>>
    /\ \E g \in SnapGroups :
          /\ Unresolved(g)
          /\ FirstMember(g).bootstrap_stage = target
          /\ g \notin Done
          /\ \E i \in Members(g) : snapshot[i].task_status # "done"

TaskSucceeded(task_id, gid) ==
    \E k \in 1..Len(index) :
        /\ index[k].task_id = task_id
        /\ index[k].group_id = gid
        /\ IsSuccessStatus(index[k].status)

FullyCompleted(gid) == \A i \in Members(gid) : TaskSucceeded(snapshot[i].id, gid)

\* C4: the entrypoint signals execute_plan:group-<g> only when every group
\* that g depends on is fully completed: each member task of each dependency
\* group has a session-index entry with a success status.
C4_DependencyOrdering ==
    result.signal = "execute_plan:group" =>
        \A d \in DepGroups(result.next_group_id) : FullyCompleted(d)

\* Every process inside the with-block of the lock.
Holders == {p \in Procs : InCS(p)}

\* C1: at most one process is inside the critical section at a time, in
\* every interleaving of the stale-cleanup, mkdir, info-write and release
\* steps of the processes acquiring the same lock.
C1_MutualExclusion == Cardinality(Holders) <= 1

\* C2: when two invocations with different session ids have both returned
\* successfully, the persisted session index has an entry for each of them.
C2_NoLostUpdate ==
    \A p \in Procs, q \in Procs :
        (p # q /\ pc[p] = "done" /\ pc[q] = "done") =>
            \E k \in 1..Len(index) : index[k].session_id = SessionOf(p)

\* C10: an acquisition attempt that has ended has ended in one of two ways:
\* the caller is in the critical section having created the lock directory
\* itself, or TimeoutError was raised after the deadline; no other exception
\* ends it, and nobody is in the critical section without having created
\* the directory.
C10_TwoOutcomes ==
    \A p \in Procs :
        /\ pc[p] \notin {"oserror", "reentry"}
        /\ InCS(p) => created[p]
        /\ pc[p] = "timeout" => time > deadline[p]

----------------------------------------------------------------------------
(* The lock's claims about release and staleness.                           *)

\* The process has left the scope of its acquisition alive.
LeftScope(p) == pc[p] \in {"done", "timeout", "oserror", "reentry"}

\* C11: once a living process has left the scope of its acquisition, by
\* whatever path (body done, body raised, timeout, failed info write), no
\* lock directory created by that process remains.
C11_ReleasedOnExit ==
    \A p \in Procs : LeftScope(p) => ~(lock.exists /\ lock.owner = p)

\* Process p's stale check takes its decision in this step.
Decides(p) == pc[p] = "check" /\ pc'[p] \in {"mkdir", "rmtree", "reentry"}

\* The lock has a readable info record whose holder is not alive.
DeadHolderLock == lock.exists /\ lock.info = "ok" /\ ~ProcessAlive(lock.pid)

\* The lock has a readable info record older than stale_timeout.
AgedLock == lock.exists /\ lock.info = "ok" /\ time - lock.timestamp > StaleTimeout

\* C12: a stale check that finds a readable info record whose holder pid is
\* not alive decides to remove the lock, whatever the age of the record.
C12_DeadHolderPreempted ==
    [][\A p \in Procs : (Decides(p) /\ DeadHolderLock) => pc'[p] = "rmtree"]_vars

\* C13: a stale check that finds a readable info record older than the stale
\* threshold decides to remove the lock, also when the holder is alive.
C13_AgedLockRemoved ==
    [][\A p \in Procs : (Decides(p) /\ AgedLock) => pc'[p] = "rmtree"]_vars

\* C14: a release by a process that is not the owner of the lock directory
\* leaves the directory as it is.
C14_ReleaseUnheldNoOp ==
    [][\A p \in Procs :
          (pc[p] = "saved" /\ pc'[p] = "done" /\ lock.exists /\ lock.owner # p)
              => lock' = lock]_vars

----------------------------------------------------------------------------
(* The claims about persistence.                                            *)

\* What a load of the destination returned before the write / returns after it.
PriorLoad == LoadFromPath(doc.prior, doc.kind)
NewLoad == LoadFromPath(CompleteFile(ToDict(doc.kind, doc.value)), doc.kind)

\* C15: until the rename the destination is identical to its prior content,
\* whether the write is in progress, has raised or was interrupted; after it
\* the destination is the complete new content; a reader at any moment
\* loads the complete prior or the complete new content, never a partial file.
C15_AtomicReplace ==
    /\ wpc # "done" => file = doc.prior
    /\ wpc = "done" => file = CompleteFile(ToDict(doc.kind, doc.value))
    /\ file.exists => file.chunks = NChunks
    /\ got.status # "none" => got \in {PriorLoad, NewLoad}

\* An interrupted write of a new document over an existing file, its
\* temporary file half written, and a reader that has loaded the old one.
C15_Witness ==
    /\ wpc = "killed"
    /\ tmp.exists /\ tmp.chunks = 1
    /\ doc.prior.exists
    /\ doc.prior # CompleteFile(ToDict(doc.kind, doc.value))
    /\ got = PriorLoad
    /\ got # NewLoad

\* C16: after a completed save, loading the file returns a document equal
\* to the saved one: the same groups (entries) in the same order with equal
\* fields.
C16_RoundTrip ==
    wpc = "done" => LoadFromPath(file, doc.kind) = [status |-> "ok", value |-> doc.value]

\* A saved plan with a dependency, a status and context references (or a
\* saved index with two entries) has been loaded back.
C16_Witness ==
    /\ wpc = "done"
    /\ got = [status |-> "ok", value |-> doc.value]
    /\ \/ /\ doc.kind = "plan"
          /\ \E i \in 1..Len(doc.value.groups) : doc.value.groups[i].depends_on # <<>>
       \/ /\ doc.kind = "plan"
          /\ \E i \in 1..Len(doc.value.groups) :
                 /\ doc.value.groups[i].context_refs # {}
                 /\ doc.value.groups[i].status = "completed"
       \/ /\ doc.kind = "index"
          /\ Len(doc.value) = 2

----------------------------------------------------------------------------
(* The entrypoint's claims about failures and signals.                      *)

\* The step is an invocation whose write sequence raised.
SaveFailed == clock' # clock /\ result'.status \in {"OSError", "TimeoutError"}

\* C17: when a step of the write sequence raises, the plan file, the index
\* file and the unified document are afterwards what they were before the
\* sequence started: the same content, or still absent.
C17_AllOrNothing ==
    [][SaveFailed =>
          /\ plan' = plan
          /\ index' = index
          /\ disk'.index_exists = disk.index_exists
          /\ disk'.unified = disk.unified]_vars

\* C18: an invocation that ends in the TimeoutError of a lock acquisition
\* (here the StateLock taken inside save_orchestration_state) has written
\* none of the plan file, the index file and the unified document.
C18_TimeoutBeforeWrite ==
    [][clock' # clock /\ result'.status = "TimeoutError" => disk'.written = {}]_vars

\* The entry of the session index for the session of the last result.
ResultEntry == index[EntryIndex(index, result.session_id)]

\* The invocation of the last step returned a result.
Returned == result.status \in {"next-group", "complete", "failed"}

\* C19: a returned result carries execute_plan:group-<first group of the
\* persisted plan> when the exit status is a success status and the
\* persisted plan has a group, execute_plan:complete when it is a success
\* status and the persisted plan is empty, execute_plan:halt otherwise.
C19_ContinuationSignal ==
    Returned =>
        LET success == ResultEntry.status \in {"completed", "complete", "success", "succeeded", "ok"}
        IN /\ result.signal \in {"execute_plan:group", "execute_plan:complete", "execute_plan:halt"}
           /\ (success /\ plan.groups # <<>>) =>
                  /\ result.signal = "execute_plan:group"
                  /\ result.next_group_id = plan.groups[1].group_id
           /\ (success /\ plan.groups = <<>>) => result.signal = "execute_plan:complete"
           /\ ~success => result.signal = "execute_plan:halt"

\* Each of the three signals has been returned: this one is a halt after an
\* earlier success left a plan.
C19_Witness ==
    /\ Returned
    /\ result.signal = "execute_plan:halt"
    /\ ResultEntry.status = "done"
    /\ plan.groups # <<>>
    /\ Len(index) = 2

\* The groups of the signalled task's bootstrap stage that are not completed.
Uncompleted ==
    {g \in SnapGroups :
        /\ FirstMember(g).bootstrap_stage = target
        /\ g \notin completed
        /\ \E i \in Members(g) : snapshot[i].task_status # "done"}

\* C20: execute_plan:complete is returned only when no group of the
\* signalled task's bootstrap stage remains uncompleted.
C20_CompleteMeansDone ==
    result.signal = "execute_plan:complete" => Uncompleted = {}

\* The invocation of the last step returned execute_plan:halt.
Halted == clock' # clock /\ result'.signal = "execute_plan:halt"

\* The group with its status and timestamps blanked: what it is made of.
Work(g) == [g EXCEPT !.status = "", !.started_at = 0, !.completed_at = 0]

\* C21: an invocation that returns execute_plan:halt has recorded the
\* session entry with a non-success status for the reporting group, and the
\* plan it persisted is the plan it loaded with the reporting group (and no
\* other group) set to failed: same groups, same order, same work.
C21_FailurePath ==
    [][Halted =>
          LET before == LoadExecutionPlan(plan).groups
              entry == index'[EntryIndex(index', result'.session_id)]
          IN /\ result'.status = "failed"
             /\ entry.group_id = result'.group_id
             /\ ~IsSuccessStatus(entry.status)
             /\ entry.updated_at = clock'
             /\ plan'.exists
             /\ Len(plan'.groups) = Len(before)
             /\ \A i \in 1..Len(before) :
                   IF before[i].group_id = result'.group_id
                   THEN /\ plan'.groups[i].status = "failed"
                        /\ Work(plan'.groups[i]) = Work(before[i])
                   ELSE plan'.groups[i] = before[i]]_vars

\* A halt persisted a plan of two groups, one failed and one not.
C21_Witness ==
    /\ result.signal = "execute_plan:halt"
    /\ \E i, k \in 1..Len(plan.groups) :
          /\ plan.groups[i].group_id = result.group_id
          /\ plan.groups[i].status = "failed"
          /\ plan.groups[k].status # "failed"

\* The groups for which the index holds an entry with a non-success status:
\* a completion signal with that status was processed for them.
FailedGroups ==
    {index[i].group_id : i \in {k \in 1..Len(index) :
        index[k].group_id # "" /\ ~IsSuccessStatus(index[k].status)}}

\* C22: after a non-success completion signal was processed for a group, no
\* invocation for another group returns execute_plan:group-<that group> or
\* counts that group among the completed groups.
C22_NoAutomaticRetry ==
    [][clock' # clock =>
          \A g \in FailedGroups :
              result'.group_id # g =>
                  /\ ~(result'.signal = "execute_plan:group" /\ result'.next_group_id = g)
                  /\ g \notin result'.completed_groups]_vars

\* The positions of the index entries of a session.
EntriesOfSession(entries, sid) == {i \in 1..Len(entries) : entries[i].session_id = sid}

\* C26: no step removes an entry or moves a session to another position;
\* an invocation that returns for a session with an entry replaces that
\* entry in place (created_at kept, updated_at, status source and group
\* renewed) and leaves the others as they were; one for a new session
\* appends exactly one entry; the session then has exactly one entry.
C26_IndexEvolution ==
    [][clock' # clock =>
          /\ Len(index') >= Len(index)
          /\ \A i \in 1..Len(index) : index'[i].session_id = index[i].session_id
          /\ Returned' =>
                LET sid == result'.session_id
                    k == EntryIndex(index, sid)
                IN /\ Cardinality(EntriesOfSession(index', sid)) = 1
                   /\ IF k # 0
                      THEN /\ Len(index') = Len(index)
                           /\ \A i \in 1..Len(index) : i # k => index'[i] = index[i]
                           /\ index'[k].created_at = index[k].created_at
                           /\ index'[k].updated_at = clock'
                           /\ index'[k].group_id = result'.group_id
                      ELSE /\ Len(index') = Len(index) + 1
                           /\ SubSeq(index', 1, Len(index)) = index
                           /\ index'[Len(index')].created_at = clock'
                           /\ index'[Len(index')].group_id = result'.group_id]_vars

\* A session reported again: its entry, not the last of the index, was
\* replaced in place.
C26_Witness ==
    /\ Returned
    /\ \E i \in 1..(Len(index) - 1) :
          /\ index[i].session_id = result.session_id
          /\ index[i].updated_at = clock
          /\ index[i].created_at < clock

----------------------------------------------------------------------------
(* The claims about get_group_status.  The state of a task is restated     *)
(* here from the index, independently of the operators above.              *)

\* A query returned a summary for a group of the plan.
Answered == summary.status \notin {"none", "BacklogBridgeError"}

\* The group of the plan with the given id.
PlanGroupOf(gid) == plan.groups[GroupIndex(plan.groups, gid)]
AskedGroup == PlanGroupOf(summary.asked)

\* The positions of the index entries scoped to the group for the task.
EntriesFor(gid, tid) ==
    {i \in 1..Len(index) : index[i].group_id = gid /\ index[i].task_id = tid}

\* The class of a status string in the classification table.
StatusClass(value) ==
    IF value \in {"completed", "Done "} THEN "completed"
    ELSE IF value = "failed" THEN "failed"
    ELSE IF value = "queued" THEN "pending"
    ELSE "running"

\* The state of a task within a group: the class of its latest entry scoped
\* to the group, pending without one.
TaskState(gid, tid) ==
    IF EntriesFor(gid, tid) = {} THEN "pending"
    ELSE LET last == CHOOSE i \in EntriesFor(gid, tid) : \A k \in EntriesFor(gid, tid) : k <= i
         IN StatusClass(index[last].status)

\* A dependency is unsatisfied: its group is missing from the plan, or one
\* of its member tasks is not completed, or it has no member task and its
\* persisted status is not completed.
Unsatisfied(dep) ==
    \/ GroupIndex(plan.groups, dep) = 0
    \/ /\ GroupIndex(plan.groups, dep) # 0
       /\ LET d == PlanGroupOf(dep)
          IN IF d.task_ids = <<>> THEN d.status # "completed"
             ELSE \E tid \in Range(d.task_ids) : TaskState(dep, tid) # "completed"

\* C23: a group with an unsatisfied dependency is reported BLOCKED, whatever
\* the states of its own tasks; a dependency group without tasks is
\* satisfied only by a persisted status of completed.
C23_BlockedTakesPrecedence ==
    Answered =>
        ((\E dep \in Range(AskedGroup.depends_on) : Unsatisfied(dep))
            => summary.status = "blocked")

\* A group whose own task failed or completed is reported BLOCKED.
C23_Witness ==
    /\ Answered
    /\ summary.status = "blocked"
    /\ \E tid \in Range(AskedGroup.task_ids) :
          TaskState(summary.asked, tid) \in {"failed", "completed"}

\* The member tasks of the queried group, and those in a given state.
AskedMembers == Range(AskedGroup.task_ids)
MembersIn(state) == {tid \in AskedMembers : TaskState(summary.asked, tid) = state}

\* The index holds an entry scoped to the queried group.
HasEntries == \E i \in 1..Len(index) : index[i].group_id = summary.asked

\* Every entry scoped to the queried group names one of its member tasks.
MemberEntriesOnly ==
    \A i \in 1..Len(index) :
        index[i].group_id = summary.asked => index[i].task_id \in AskedMembers

\* The status of the first matching rule; scheduled says when a plan-level
\* status of running makes a group without active task RUNNING.
RuleStatus(scheduled) ==
    IF MembersIn("failed") # {} THEN "failed"
    ELSE IF AskedMembers = {}
         THEN (IF AskedGroup.status = "running" THEN "running" ELSE "pending")
    ELSE IF MembersIn("completed") = AskedMembers THEN "completed"
    ELSE IF MembersIn("running") # {} \/ MembersIn("completed") # {} THEN "running"
    ELSE IF AskedGroup.status = "running" /\ scheduled THEN "running"
    ELSE "pending"

\* A failed summary says how many tasks failed.
FailedReason ==
    summary.status = "failed" =>
        summary.reason = Reason("task(s) failed", Cardinality(MembersIn("failed")), 0, <<>>)

C25_NoFalseCompletion ==
    Answered /\ summary.status = "completed" =>
        \A tid \in AskedMembers : TaskState(summary.asked, tid) = "completed"

----------------------------------------------------------------------------
(* The claims about the objects of state/models.py.                        *)

\* The plan that the latest call made, if it made one.
MadePlan ==
    /\ made.status = "ok"
    /\ made.call \in {"ExecutionPlan", "from_dict", "build_next_plan", "_update_plan_status"}

\* The groups that the latest call made: the group, or those of the plan.
MadeGroups ==
    IF made.status # "ok" THEN {}
    ELSE IF made.call = "ExecutionGroup" THEN {made.value}
    ELSE Range(made.value.groups)

Distinct(ids) == \A i, k \in 1..Len(ids) : i # k => ids[i] # ids[k]
GroupIdsOf(groups) == [i \in 1..Len(groups) |-> groups[i].group_id]

\* C27: a plan that was constructed, loaded, built or rewritten has pairwise
\* distinct group ids, and constructing or loading one from groups with a
\* repeated id raises ValueError.
C27_UniqueGroupIds ==
    /\ MadePlan => Distinct(GroupIdsOf(made.value.groups))
    /\ made.call \in {"ExecutionPlan", "from_dict"} /\ ~Distinct(GroupIdsOf(made.args))
          => made.status = "ValueError"

\* A plan of two valid groups with the same id was refused.
C27_Witness ==
    /\ made.call \in {"ExecutionPlan", "from_dict"}
    /\ made.status = "ValueError"
    /\ Len(made.args) = 2
    /\ made.args[1].group_id = made.args[2].group_id
    /\ \A i \in 1..2 : GroupPostInitValid(made.args[i])

\* The dependencies, stripped, name the group itself or one id twice.
SelfOrRepeated(fields) ==
    LET deps == [i \in 1..Len(fields.depends_on) |-> Strip(fields.depends_on[i])]
    IN \/ \E i \in 1..Len(deps) : deps[i] = fields.group_id
       \/ ~Distinct(deps)

----------------------------------------------------------------------------
(* The claims about loading.                                               *)

\* A load call has ended.
Loaded == got # NoLoad

\* The unified document can be read and holds the orchestration section.
SectionPresent == unified.exists /\ unified.chunks = NChunks /\ unified.section = "dict"

\* A file that exists holds malformed JSON.
MalformedUnified == unified.exists /\ unified.chunks < NChunks
MalformedFile == file.exists /\ file.chunks < NChunks

\* The document that a complete payload holds, or the ValueError of its
\* from_dict.
Parsed(payload) == FromDict(payload)

FileRaises ==
    \/ MalformedFile
    \/ file.exists /\ file.payload.kind = "array"
    \/ file.exists /\ Parsed(file.payload).status = "ValueError"

----------------------------------------------------------------------------
(* Claims about the group named by the continuation signal (SpecSignal). *)

\* C31: the group named by execute_plan:group-<id> is not in the completed
\* set computed by the invocation that returned the signal.
C31_DispatchedNotCompleted ==
    result.signal = "execute_plan:group" =>
        result.next_group_id \notin {Strip(g) : g \in result.completed_groups}

----------------------------------------------------------------------------
(* Claims about stale cleanup and nested acquisition (SpecLock). *)

\* The lock directory holds a readable record of a living owner that is not
\* older than stale_timeout.
FreshLock ==
    /\ lock.exists
    /\ lock.info = "ok"
    /\ ProcessAlive(lock.pid)
    /\ time - lock.timestamp <= StaleTimeout

\* C32: the rmtree of a contender's stale cleanup never removes a lock
\* directory whose recorded owner is alive and whose age is within
\* stale_timeout.
C32_CleanupSparesFreshLock ==
    [][\A p \in Procs : (pc[p] = "rmtree" /\ pc'[p] = "mkdir") => ~FreshLock]_vars

\* The lock directory is the one process p created, with p's info record.
OwnHold(p) == lock.exists /\ lock.owner = p /\ lock.info = "ok" /\ lock.pid = p

\* Process p's nested acquisition takes a step.
NestedActs(p) ==
    /\ nested[p] \in {"check", "rmtree", "mkdir", "write_info"}
    /\ nested'[p] # nested[p]

\* What the claim says of a step of the nested acquisition: no second hold,
\* the lock directory untouched, RuntimeError at once in _lock, and in
\* StateLock nothing but polling that ends in TimeoutError after the deadline.
NestedRejected(p) ==
    /\ nested'[p] \notin {"write_info", "held"}
    /\ lock' = lock
    /\ impl = "_lock" => nested'[p] = "reentry"
    /\ impl = "StateLock" =>
          /\ nested'[p] \in {"mkdir", "sleep", "timeout"}
          /\ nested'[p] = "timeout" => time > deadline[p]

\* C33: a step of the nested acquisition of a process whose own lock
\* directory and info record are in place obtains no second hold and leaves
\* the directory as it is; _lock raises RuntimeError in that very step,
\* StateLock polls and raises TimeoutError only after its deadline.
C33_NoNestedHold ==
    [][\A p \in Procs : (NestedActs(p) /\ OwnHold(p)) => NestedRejected(p)]_vars

\* A nested attempt of a process holding its own lock has been rejected.
C33_Witness ==
    \E p \in Procs :
        /\ OwnHold(p)
        /\ pc[p] = "saved"
        /\ \/ impl = "_lock" /\ nested[p] = "reentry"
           \/ impl = "StateLock" /\ nested[p] = "timeout"

----------------------------------------------------------------------------
(* The entrypoint and get_group_status on the same session index            *)
(* (SpecSignal).                                                            *)

\* C38: for every entry the entrypoint has written to the session index,
\* the entrypoint counts its status as success exactly when
\* _normalize_session_status classifies it as completed.
C38_CompletionAgreement ==
    \A i \in 1..Len(index) :
        IsSuccessStatus(index[i].status) <=>
            NormalizeSessionStatus(index[i].status) = "completed"

----------------------------------------------------------------------------
(* The claim about save_orchestration_state (SpecUnified). *)

\* The document's prior value of the other metadata keys and of a section.
PriorOther ==
    IF unified.payload.metadata.kind = "dict" THEN unified.payload.metadata.other ELSE "absent"
PriorSection(k) ==
    IF /\ unified.payload.metadata.kind = "dict"
       /\ unified.payload.metadata.orchestration.kind = "dict"
    THEN unified.payload.metadata.orchestration[k]
    ELSE AbsentSection

\* The step that writes the document.
WritesUnified == wpc = "loaded" /\ wpc' = "written"

\* C37: the write of save_orchestration_state sets the sections it was
\* given and leaves the other section, the other metadata keys and the
\* other top-level keys with the values the document had; nothing but that
\* write changes the document; the lock taken before the load is held,
\* unreleased, until the write is done.
C37_ChangesOnlyWhatGiven ==
    [][/\ WritesUnified =>
             /\ unified'.payload.top = unified.payload.top
             /\ unified'.payload.metadata.other = PriorOther
             /\ \A k \in {"session_index", "execution_plan"} :
                   unified'.payload.metadata.orchestration[k] =
                       IF doc[k].kind # "none" THEN doc[k] ELSE PriorSection(k)
       /\ unified' # unified => WritesUnified
       /\ wpc \in {"locked", "loaded"} => lock.exists /\ lock' = lock]_vars

\* A call with only session_index has returned; the document holds the
\* execution_plan section and the other keys it had.
C37_Witness ==
    /\ made = [call |-> "save_orchestration_state", status |-> "ok"]
    /\ doc.session_index.kind = "index"
    /\ doc.execution_plan.kind = "none"
    /\ unified.payload.top = "kept"
    /\ unified.payload.metadata.other = "kept"
    /\ unified.payload.metadata.orchestration.session_index = doc.session_index
    /\ unified.payload.metadata.orchestration.execution_plan.kind = "plan"

\* The lock directory has no readable info record and has existed longer
\* than stale_timeout.
OrphanAged == lock.exists /\ lock.info # "ok" /\ time - lock.mtime > StaleTimeout

\* C35: no acquisition attempt ends in TimeoutError in front of a lock
\* directory that has no readable info record and has existed longer than
\* stale_timeout: the attempt has removed it.
C35_OrphanLockRemoved ==
    [][\A p \in Procs : (pc[p] # "timeout" /\ pc'[p] = "timeout") => ~OrphanAged]_vars


----------------------------------------------------------------------------
(* Claims about the hooks' state file (SpecHook).                          *)

\* The state the hook starts from makes it restore the stashed todos.
Restoring ==
    LET st == LoadStateValue(file)
    IN /\ st.mode = "orchestration"
       /\ AllComplete(st.todos)
       /\ st.active_protocol # "task-completion"
       /\ st.todos.stashed # <<>>

\* C39: when a run of the hook for TodoWrite restores the stashed todos, the
\* persisted api.todos_clear is true when that run ends.
C39_ClearWindowOpens ==
    [][(made'.call = "post_tool_use" /\ made'.status = "TodoWrite" /\ Restoring)
          => LoadStateValue(file').api.todos_clear]_vars

\* C40: the state in memory is what from_dict makes of its to_dict, and once
\* set_subagent(id) has been written, the reloaded state is not stale for id.
C40_RoundTrip ==
    /\ StateFromDict(StateToDict(loaded.STATE_)) = loaded.STATE_
    /\ made.call = "set_subagent" => ~IsSubagentStale(LoadStateValue(file), made.status)

----------------------------------------------------------------------------
(* Claims about edit_state and load_state under contention (SpecEdit).     *)

\* Process p has the lock directory with its own record in it.
HoldsStateLock(p) ==
    lock.exists /\ lock.owner = p /\ lock.info = "ok" /\ lock.pid = p

\* C34: every step that changes the state file is taken by the process that
\* holds the lock, the writing of a default state by load_state included.
C34_OnlyHolderWrites ==
    [][file' # file => \E p \in Procs : HoldsStateLock(p) /\ pc'[p] # pc[p]]_vars

\* C36: edit_state loads the state while it holds the lock; when the body
\* returns, the state is written before the release and load_state then
\* returns that state; when the body raises, the file is left as it was and
\* the lock is released next.
C36_LockedReadModifyWrite ==
    [][\A p \in Procs :
          /\ (pc[p] = "cs" /\ pc'[p] = "loaded") => HoldsStateLock(p)
          /\ (pc[p] = "mutated" /\ pc'[p] = "saved") =>
                /\ HoldsStateLock(p)
                /\ LoadStateValue(file') = loaded[p].STATE_
          /\ (pc[p] = "loaded" /\ pc'[p] = "saved") => file' = file
          /\ (pc[p] = "saved" /\ pc'[p] # "saved") => ~lock'.exists]_vars

==============================================================================
